---- MODULE Spec2Model ----
(***************************************************************************)
(* Authentication / authorization pipeline of the webapi service.          *)
(*                                                                         *)
(* A request occupies a slot.  handle_request routes it either to the      *)
(* public login handler or, through auth_middleware, to a protected        *)
(* handler.  auth_middleware is modelled stage by stage: extract_token,    *)
(* jsonwebtoken::decode, the additional expiry check, Uuid::parse_str,     *)
(* the insertion of the identity into the request extensions and the call  *)
(* of the downstream handler.                                              *)
(*                                                                         *)
(* Strings are modelled structurally.  A token string is the sequence of   *)
(* its '.'-separated segments; a segment is a record: [raw |-> text] for   *)
(* text that is not base64url/JSON, [b64 |-> value] for the base64url      *)
(* encoding of a JSON value, [mac |-> <<key, message>>] for the HS256 tag  *)
(* of message under key.  An Option is a sequence of length 0 or 1.        *)
(***************************************************************************)
EXTENDS Integers, Sequences, FiniteSets, TLC

\* ------------------------------------------------------------------ bounds
NReq == 2        \* request slots of the server
MaxEpoch == 1    \* the clock covers epochs 0..MaxEpoch of TOKEN_EXPIRY_SECONDS

\* ------------------------------------------------------- program constants
TOKEN_EXPIRY_SECONDS == 3600
LEEWAY == 60

\* ------------------------------------------------------------------ Option
None == <<>>
Some(x) == <<x>>
IsSome(o) == Len(o) = 1
Unwrap(o) == o[1]

\* ------------------------------------------------------------------- clock
\* Instants the clock is observed at: the start, and for every later epoch
\* its first seconds and the edge of the leeway window, so that a token
\* issued at instant t is seen at t + 3600 + d for every offset d.
ClockOffsets == {0, 1, LEEWAY, LEEWAY + 1}
Instants ==
    {0} \cup {e * TOKEN_EXPIRY_SECONDS + d : e \in 1..MaxEpoch, d \in ClockOffsets}

\* ------------------------------------------------------------------- roles
UserRole == {"User", "Admin", "Moderator"}

\* -------------------------------------------------------------------- uuid
\* A textual form of a UUID is <<format, id>>; any other text is <<"text", n>>.
UuidFormats == {"hyphenated", "simple", "urn", "braced"}
Uuid_to_string(id) == <<"hyphenated", id>>
\* A parser that takes any text for a UUID.
Uuid_parse_str_lenient(s) == [ok |-> TRUE, id |-> s[2]]

\* Uuid::parse_str: Ok(id) for every textual form the uuid crate accepts.
Uuid_parse_str(s) ==
    IF s[1] \in UuidFormats THEN [ok |-> TRUE, id |-> s[2]]
                            ELSE [ok |-> FALSE, id |-> 0]

\* ---------------------------------------------------------- password hash
\* A PHC string of Argon2id: algorithm, salt and digest of the plaintext.
PhcString(salt, password) == [alg |-> "argon2id", salt |-> salt, digest |-> password]
MalformedHash == [raw |-> "not-a-phc-string"]
\* verify_password: PasswordHash::new fails on a malformed stored hash and
\* the failure is returned as AppError::Internal.
verify_password(password, hash) ==
    IF "alg" \notin DOMAIN hash
    THEN [ok |-> FALSE, val |-> FALSE, err |-> "Internal"]
    ELSE [ok |-> TRUE, val |-> (hash.digest = password), err |-> "none"]

\* ------------------------------------------------------------------ tokens
Raw(text) == [raw |-> text]
B64(value) == [b64 |-> value]
IsB64(seg) == "b64" \in DOMAIN seg
\* HMAC-SHA256 of the message (header segment, payload segment) under key.
Sign(key, message) == [mac |-> <<key, message>>]

Header(alg) == [alg |-> alg, typ |-> "JWT"]
\* jsonwebtoken::Header::default()
DefaultHeader == Header("HS256")

\* models::Claims as JSON; iss and aud are registered claims the struct does
\* not have: a token of another issuer may carry them, serde ignores them.
ClaimsJson(sub, exp, iat, role, email, iss, aud) ==
    [sub |-> sub, exp |-> exp, iat |-> iat, role |-> role, email |-> email,
     iss |-> iss, aud |-> aud]
\* The Claims struct deserialised from a payload: the five fields of the struct.
ClaimsOf(json) ==
    [sub |-> json.sub, exp |-> json.exp, iat |-> json.iat, role |-> json.role,
     email |-> json.email]

\* jsonwebtoken::encode(header, claims, key): header.payload.signature
encode(header, claims, key) ==
    LET h == B64(header)
        p == B64(claims)
    IN  <<h, p, Sign(key, <<h, p>>)>>

\* ------------------------------------------------------ state of the system
VARIABLES
    now,            \* SystemTime::now() in seconds since the epoch
    env,            \* process environment: JWT_SECRET, JWT_ISSUER, JWT_AUDIENCE
    jwtCrate,       \* behaviour of the linked jsonwebtoken release (fixed by the build)
    DECODING_KEY,   \* OnceLock<DecodingKey>
    JWT_VALIDATION, \* OnceLock<Validation>
    users,          \* rows of the users table
    held,           \* the token the client got from its last successful login
    active,         \* the request slots in use
    req,            \* per slot: the request being served
    pc,             \* per slot: the position of its task
    token,          \* per slot: the result of extract_token
    claims,         \* per slot: token_data.claims
    user_id,        \* per slot: the parsed subject
    extensions,     \* per slot: req.extensions(): the bound identity
    response,       \* per slot: the response sent
    invoked,        \* per slot: number of calls of the downstream handler
    observed,       \* per slot: the clock as read by decode and by line 161
    trace,          \* per slot: the stages executed, in order
    log,            \* per slot: the log events written
    args,           \* per slot: the arguments of the operation applied to it
    inits,          \* number of runs of each OnceLock initialiser
    ret,            \* per slot: the value a service call returned
    locals          \* per slot: what the task holds across its await points

vars == <<now, env, jwtCrate, DECODING_KEY, JWT_VALIDATION, users, held, active,
          req, pc, token, claims, user_id, extensions, response, invoked, observed,
          trace, log, args, inits, ret, locals>>

Reqs == 1..NReq

\* ---------------------------------------------------- signing configuration
Secrets == {"secret-1"}
ForgerKey == "forger-key"
Issuers == {None, Some("issuer-1")}
Audiences == {None, Some("audience-1")}
Environments ==
    [JWT_SECRET : Secrets, JWT_ISSUER : Issuers, JWT_AUDIENCE : Audiences]

\* jsonwebtoken releases differ in the validation of a token that lacks a
\* claim which set_issuer / set_audience constrains: "reject" (InvalidIssuer,
\* InvalidAudience) or "skip" (only required_spec_claims must be present).
\* The release is fixed by the build, which the sources do not determine.
\* (Releases also differ on a token that carries aud when the Validation has
\* none; no token of the inputs does.)
CrateReleases == { [missing |-> "reject"], [missing |-> "skip"] }

\* DecodingKey::from_secret(jwt_secret.as_bytes())
get_jwt_key_init(e) == e.JWT_SECRET

\* Validation::new(HS256), set_issuer / set_audience when the variable is
\* set, leeway = 60.
get_jwt_validation_init(e) ==
    [algorithms |-> {"HS256"},
     iss |-> e.JWT_ISSUER,
     aud |-> e.JWT_AUDIENCE,
     leeway |-> LEEWAY,
     validate_exp |-> TRUE]

\* OnceLock::get_or_init: the stored value, or the initialiser's value.
get_or_init(cell, init) == IF IsSome(cell) THEN cell ELSE Some(init)

\* ------------------------------------------------------ jsonwebtoken::decode
DecodeErr(kind) == [ok |-> FALSE, kind |-> kind, claims |-> None]
DecodeOk(c) == [ok |-> TRUE, kind |-> "Ok", claims |-> Some(c)]

\* validation::validate on the registered claims of a payload at time t.
validate(json, validation, t, crate) ==
    IF validation.validate_exp /\ json.exp < t - validation.leeway
    THEN DecodeErr("ExpiredSignature")
    ELSE IF IsSome(validation.iss) /\ IsSome(json.iss) /\ json.iss # validation.iss
    THEN DecodeErr("InvalidIssuer")
    ELSE IF IsSome(validation.iss) /\ ~IsSome(json.iss) /\ crate.missing = "reject"
    THEN DecodeErr("InvalidIssuer")
    ELSE IF IsSome(validation.aud) /\ IsSome(json.aud) /\ json.aud # validation.aud
    THEN DecodeErr("InvalidAudience")
    ELSE IF IsSome(validation.aud) /\ ~IsSome(json.aud) /\ crate.missing = "reject"
    THEN DecodeErr("InvalidAudience")
    ELSE DecodeOk(ClaimsOf(json))

\* decode without the signature check (the crate's insecure decode).
decode_unverified(tok, key, validation, t, crate) ==
    IF Len(tok) < 3 THEN DecodeErr("InvalidToken")
    ELSE IF Len(tok) > 3 THEN DecodeErr("Base64")
    ELSE IF ~IsB64(tok[1]) THEN DecodeErr("Base64")
    ELSE IF "alg" \notin DOMAIN tok[1].b64 THEN DecodeErr("Json")
    ELSE IF tok[1].b64.alg \notin validation.algorithms THEN DecodeErr("InvalidAlgorithm")
    ELSE IF ~IsB64(tok[2]) THEN DecodeErr("Base64")
    ELSE IF "sub" \notin DOMAIN tok[2].b64 THEN DecodeErr("Json")
    ELSE validate(tok[2].b64, validation, t, crate)

\* decode::<Claims>(token, key, validation) evaluated at time t: split into
\* three segments, decode the header, check the algorithm, verify the
\* signature over header.payload, decode the payload, validate the claims.
decode(tok, key, validation, t, crate) ==
    IF Len(tok) < 3 THEN DecodeErr("InvalidToken")
    ELSE IF Len(tok) > 3 THEN DecodeErr("Base64")
    ELSE IF ~IsB64(tok[1]) THEN DecodeErr("Base64")
    ELSE IF "alg" \notin DOMAIN tok[1].b64 THEN DecodeErr("Json")
    ELSE IF tok[1].b64.alg \notin validation.algorithms THEN DecodeErr("InvalidAlgorithm")
    ELSE IF tok[3] # Sign(key, <<tok[1], tok[2]>>) THEN DecodeErr("InvalidSignature")
    ELSE IF ~IsB64(tok[2]) THEN DecodeErr("Base64")
    ELSE IF "sub" \notin DOMAIN tok[2].b64 THEN DecodeErr("Json")
    ELSE validate(tok[2].b64, validation, t, crate)

\* ------------------------------------------------------------ generate_token
\* Claims { sub, exp: now + 3600, iat: now, role, email } signed with the
\* JWT_SECRET read from the environment at the time of the call.
generate_token(uid, email, role, e, t) ==
    encode(DefaultHeader,
           ClaimsJson(Uuid_to_string(uid), t + TOKEN_EXPIRY_SECONDS, t, role, email,
                      None, None),
           e.JWT_SECRET)

\* ------------------------------------------------------------- extract_token
\* Index of the first cookie of the header that is named auth_token, 0 if none.
FirstAuthCookie(cookies) ==
    LET hits == {i \in 1..Len(cookies) : cookies[i].name = "auth_token"}
    IN  IF hits = {} THEN 0 ELSE CHOOSE i \in hits : \A j \in hits : i <= j

\* extract_token that tries the legacy header before the Authorization header.
extract_token_legacy_first(r) ==
    IF IsSome(r.x_user_access_token) /\ Unwrap(r.x_user_access_token).ascii
    THEN Some(Unwrap(r.x_user_access_token).value)
    ELSE IF /\ IsSome(r.authorization)
            /\ Unwrap(r.authorization).ascii
            /\ Unwrap(r.authorization).prefix = "Bearer "
    THEN Some(Unwrap(r.authorization).rest)
    ELSE IF /\ IsSome(r.cookie)
            /\ Unwrap(r.cookie).ascii
            /\ FirstAuthCookie(Unwrap(r.cookie).cookies) # 0
    THEN Some(Unwrap(r.cookie).cookies[FirstAuthCookie(Unwrap(r.cookie).cookies)].value)
    ELSE None

\* extract_token that yields the empty string instead of None.
extract_token_or_default(r) ==
    IF /\ IsSome(r.authorization)
       /\ Unwrap(r.authorization).ascii
       /\ Unwrap(r.authorization).prefix = "Bearer "
    THEN Some(Unwrap(r.authorization).rest)
    ELSE IF IsSome(r.x_user_access_token) /\ Unwrap(r.x_user_access_token).ascii
    THEN Some(Unwrap(r.x_user_access_token).value)
    ELSE IF /\ IsSome(r.cookie)
            /\ Unwrap(r.cookie).ascii
            /\ FirstAuthCookie(Unwrap(r.cookie).cookies) # 0
    THEN Some(Unwrap(r.cookie).cookies[FirstAuthCookie(Unwrap(r.cookie).cookies)].value)
    ELSE Some(<<Raw("")>>)

\* extract_token that falls back: it yields the first carrier, by priority,
\* whose value has the three segments of a JWT, else the first carrier.
extract_token_fall_back(r) ==
    LET bearer == IF /\ IsSome(r.authorization)
                     /\ Unwrap(r.authorization).ascii
                     /\ Unwrap(r.authorization).prefix = "Bearer "
                  THEN <<Unwrap(r.authorization).rest>> ELSE <<>>
        legacy == IF IsSome(r.x_user_access_token) /\ Unwrap(r.x_user_access_token).ascii
                  THEN <<Unwrap(r.x_user_access_token).value>> ELSE <<>>
        cookie == IF /\ IsSome(r.cookie)
                     /\ Unwrap(r.cookie).ascii
                     /\ FirstAuthCookie(Unwrap(r.cookie).cookies) # 0
                  THEN <<Unwrap(r.cookie).cookies[FirstAuthCookie(Unwrap(r.cookie).cookies)].value>>
                  ELSE <<>>
        found == bearer \o legacy \o cookie
        whole == {i \in 1..Len(found) : Len(found[i]) = 3}
    IN  IF found = <<>> THEN None
        ELSE IF whole = {} THEN Some(found[1])
        ELSE Some(found[CHOOSE i \in whole : \A j \in whole : i <= j])

extract_token(r) ==
    IF /\ IsSome(r.authorization)
       /\ Unwrap(r.authorization).ascii
       /\ Unwrap(r.authorization).prefix = "Bearer "
    THEN Some(Unwrap(r.authorization).rest)
    ELSE IF IsSome(r.x_user_access_token) /\ Unwrap(r.x_user_access_token).ascii
    THEN Some(Unwrap(r.x_user_access_token).value)
    ELSE IF /\ IsSome(r.cookie)
            /\ Unwrap(r.cookie).ascii
            /\ FirstAuthCookie(Unwrap(r.cookie).cookies) # 0
    THEN Some(Unwrap(r.cookie).cookies[FirstAuthCookie(Unwrap(r.cookie).cookies)].value)
    ELSE None

\* ------------------------------------------------------------- into_response
\* The request id read from X-Request-ID: .to_str().ok()
request_id_of(r) ==
    IF IsSome(r.x_request_id) /\ Unwrap(r.x_request_id).ascii
    THEN Some(Unwrap(r.x_request_id).value)
    ELSE None

FreshTraceId == "fresh-uuid"

\* The kinds of AppError, and the kinds that carry a String.
ErrorKinds ==
    {"Unauthorized", "InvalidToken", "Forbidden", "NotFound", "BadRequest",
     "ValidationError", "Conflict", "RateLimited", "Internal", "Database",
     "ServiceUnavailable"}

\* AppError::into_response, the match of lines 79-141: status, error_type,
\* message and details of a kind; msg is the payload of the kind (the source
\* error of Internal and Database); messages are given in English.
error_row(kind, msg) ==
    CASE kind = "Unauthorized" -> <<401, "Unauthorized", "authorization required", None>>
      [] kind = "InvalidToken" -> <<401, "InvalidToken", "invalid authorization token", None>>
      [] kind = "Forbidden" ->
            <<403, "Forbidden", IF msg = "" THEN "access denied" ELSE msg, None>>
      [] kind = "NotFound" -> <<404, "NotFound", "resource not found: " \o msg, None>>
      [] kind = "BadRequest" -> <<400, "BadRequest", msg, None>>
      [] kind = "ValidationError" ->
            <<400, "ValidationError", "data validation error", Some(msg)>>
      [] kind = "Conflict" -> <<409, "Conflict", msg, None>>
      [] kind = "RateLimited" -> <<429, "RateLimited", "rate limit exceeded", None>>
      [] kind = "Internal" ->
            <<500, "InternalServerError", "internal server error", None>>
      [] kind = "Database" -> <<500, "DatabaseError", "database error", None>>
      [] kind = "ServiceUnavailable" ->
            <<503, "ServiceUnavailable", "service temporarily unavailable", None>>

\* A serialisation that writes details also when it is None.
serialize_error_no_skip(row, trace_id, timestamp) ==
    [status |-> row[1], error |-> row[2], message |-> row[3],
     details |-> IF IsSome(row[4]) THEN Unwrap(row[4]) ELSE "null",
     trace_id |-> trace_id, timestamp |-> timestamp]

\* serde_json::to_string(&ErrorResponse): the fields under their names,
\* details and field_errors (always None) skipped when None.
serialize_error(row, trace_id, timestamp) ==
    IF IsSome(row[4])
    THEN [status |-> row[1], error |-> row[2], message |-> row[3],
          details |-> Unwrap(row[4]), trace_id |-> trace_id, timestamp |-> timestamp]
    ELSE [status |-> row[1], error |-> row[2], message |-> row[3],
          trace_id |-> trace_id, timestamp |-> timestamp]

\* The trace id of an error response: the request id given, else a new UUID.
trace_id_of(request_id) == IF IsSome(request_id) THEN Unwrap(request_id) ELSE FreshTraceId

\* What into_response writes to the log: the source of Internal and Database.
into_response_log(kind, msg, request_id) ==
    IF kind \in {"Internal", "Database"}
    THEN <<[level |-> "error", kind |-> kind, trace_id |-> trace_id_of(request_id),
            source |-> msg]>>
    ELSE <<>>

\* A response built without .status(status).
into_response_status_unset(kind, msg, request_id) ==
    [status |-> 200,
     body |-> serialize_error(error_row(kind, msg), trace_id_of(request_id),
                              [iso8601 |-> now]),
     x_trace_id |-> Some(trace_id_of(request_id)),
     x_request_id |-> None]

\* The error field filled with the name of the variant.
into_response_kind_label(kind, msg, request_id) ==
    [status |-> error_row(kind, msg)[1],
     body |-> [serialize_error(error_row(kind, msg), trace_id_of(request_id),
                               [iso8601 |-> now]) EXCEPT !.error = kind],
     x_trace_id |-> Some(trace_id_of(request_id)),
     x_request_id |-> None]

\* The message completed with the payload of the kind.
into_response_with_source(kind, msg, request_id) ==
    [status |-> error_row(kind, msg)[1],
     body |-> [serialize_error(error_row(kind, msg), trace_id_of(request_id),
                               [iso8601 |-> now])
                 EXCEPT !.message = error_row(kind, msg)[3] \o ": " \o msg],
     x_trace_id |-> Some(trace_id_of(request_id)),
     x_request_id |-> None]

\* AppError::into_response: the timestamp is the clock's reading, the trace
\* id goes to the body and to the X-Trace-ID header.
into_response(kind, msg, request_id) ==
    [status |-> error_row(kind, msg)[1],
     body |-> serialize_error(error_row(kind, msg), trace_id_of(request_id),
                              [iso8601 |-> now]),
     x_trace_id |-> Some(trace_id_of(request_id)),
     x_request_id |-> None]

\* json_response(data, status, request_id) of the controllers
json_response(data, status, request_id) ==
    [status |-> status, body |-> data, x_trace_id |-> None, x_request_id |-> request_id]

NoResponse == [status |-> 0, body |-> [none |-> TRUE], x_trace_id |-> None, x_request_id |-> None]

\* ------------------------------------------------------------- users table
InitialUsers ==
    { [id |-> 1, name |-> "First User", email |-> "user@example.com",
       password_hash |-> PhcString("salt-1", "Passw0rd1"), age |-> 25,
       role |-> "User", created_at |-> 0, updated_at |-> 0, is_active |-> TRUE],
      [id |-> 2, name |-> "An Admin", email |-> "admin@example.com",
       password_hash |-> PhcString("salt-2", "Passw0rd2"), age |-> 40,
       role |-> "Admin", created_at |-> 0, updated_at |-> 0, is_active |-> TRUE],
      [id |-> 3, name |-> "Gone User", email |-> "gone@example.com",
       password_hash |-> PhcString("salt-3", "Passw0rd1"), age |-> 30,
       role |-> "Moderator", created_at |-> 0, updated_at |-> 0, is_active |-> FALSE] }

\* repositories::user::find_user_by_email: fetch_one by email, RowNotFound
\* becomes NotFound, an inactive row is refused with Forbidden.
find_user_by_email(email, table) ==
    LET rows == {u \in table : u.email = email}
    IN  IF rows = {} THEN [ok |-> FALSE, err |-> "NotFound", user |-> None]
        ELSE LET u == CHOOSE x \in rows : TRUE
             IN  IF ~u.is_active THEN [ok |-> FALSE, err |-> "Forbidden", user |-> None]
                 ELSE [ok |-> TRUE, err |-> "none", user |-> Some(u)]

\* A UserResponse that copies every column of the row.
UserResponse_all_columns(u) ==
    [id |-> u.id, name |-> u.name, email |-> u.email, age |-> u.age, role |-> u.role,
     created_at |-> u.created_at, password_hash |-> u.password_hash]

\* UserResponse::from(&user): no password hash
UserResponse(u) ==
    [id |-> u.id, name |-> u.name, email |-> u.email, age |-> u.age, role |-> u.role,
     created_at |-> u.created_at]

\* ------------------------------------------------------------------ inputs
MalformedEmails == {"not-an-email"}
LoginEmails == {"user@example.com", "admin@example.com", "gone@example.com",
                "nobody@example.com", "not-an-email"}
LoginPasswords == {"Passw0rd1", "Passw0rd2", ""}

NoBody == [kind |-> "empty", email |-> "", password |-> ""]
LoginBodies ==
    {NoBody, [kind |-> "garbage", email |-> "", password |-> ""]}
    \cup {[kind |-> "json", email |-> e, password |-> p] : e \in LoginEmails, p \in LoginPasswords}

\* An expiry later than every instant of the clock.
FarFuture == (MaxEpoch + 2) * TOKEN_EXPIRY_SECONDS

Garbage == <<Raw("invalid_token")>>
EmptyToken == <<Raw("")>>
TwoSegments == <<Raw("a"), Raw("b")>>
\* a token with its signature segment replaced
MutateSignature(t) == <<t[1], t[2], Raw("mutated")>>
\* a token whose payload was edited to role Admin, signature kept
Escalate(t) == <<t[1], B64([t[2].b64 EXCEPT !.role = "Admin"]), t[3]>>
ForeignClaims(sub, iss, aud) ==
    ClaimsJson(sub, FarFuture, 0, "User", "user@example.com", iss, aud)
\* signed by a party that does not know the secret
WrongKey == encode(DefaultHeader, ForeignClaims(Uuid_to_string(1), None, None), ForgerKey)
\* tokens signed with the service's secret by another holder of the secret
BadSubject(e) ==
    encode(DefaultHeader, ForeignClaims(<<"text", 0>>, None, None), e.JWT_SECRET)
SimpleSubject(e) ==
    encode(DefaultHeader, ForeignClaims(<<"simple", 1>>, None, None), e.JWT_SECRET)
OtherAlgorithm(e) ==
    encode(Header("HS512"), ForeignClaims(Uuid_to_string(1), None, None), e.JWT_SECRET)
\* ... and that carries the issuer and the audience the environment names
Conforming(e) ==
    encode(DefaultHeader,
           ForeignClaims(Uuid_to_string(1), e.JWT_ISSUER, e.JWT_AUDIENCE),
           e.JWT_SECRET)
UndecodablePayload(e) ==
    LET h == B64(DefaultHeader)
        p == Raw("%%%")
    IN  <<h, p, Sign(e.JWT_SECRET, <<h, p>>)>>

\* tokens derived from the token the client holds
HeldTokens(h) == IF IsSome(h) THEN {Unwrap(h)} ELSE {}
\* tokens any carrier may hold
CommonTokens(h, e) ==
    {Garbage, BadSubject(e)} \cup HeldTokens(h)
    \cup {MutateSignature(t) : t \in HeldTokens(h)}
\* tokens presented as Bearer only
BearerTokens(h, e) ==
    CommonTokens(h, e)
    \cup {EmptyToken, TwoSegments, WrongKey, SimpleSubject(e), OtherAlgorithm(e),
          Conforming(e), UndecodablePayload(e)}
    \cup {Escalate(t) : t \in HeldTokens(h)}
\* tokens used to fill a second carrier
DecoyTokens(h) == {Garbage} \cup HeldTokens(h)

Authorization(prefix, t) == Some([ascii |-> TRUE, prefix |-> prefix, rest |-> t])
Bearer(t) == Authorization("Bearer ", t)
NonAscii == Some([ascii |-> FALSE, prefix |-> "", rest |-> Garbage,
                  value |-> Garbage, cookies |-> <<>>])
Legacy(t) == Some([ascii |-> TRUE, value |-> t])
CookiePair(name, t) == [name |-> name, value |-> t]
Cookie(pairs) == Some([ascii |-> TRUE, cookies |-> pairs])
AuthCookie(t) == Cookie(<<CookiePair("auth_token", t)>>)

ProtectedRoutes == {"update_user", "change_password"}

Request(route, a, x, c, body) ==
    [route |-> route, authorization |-> a, x_user_access_token |-> x, cookie |-> c,
     x_request_id |-> None, body |-> body]

\* The carriers of the requests sent to a protected route.
Carriers(h, e) ==
    \* one carrier
    {<<Bearer(t), None, None>> : t \in BearerTokens(h, e)}
    \cup {<<None, Legacy(t), None>> : t \in CommonTokens(h, e)}
    \cup {<<None, None, AuthCookie(t)>> : t \in CommonTokens(h, e)}
    \* no token on any carrier
    \cup {<<None, None, None>>,
          <<Authorization("Basic x", Garbage), None, None>>,
          <<NonAscii, None, None>>,
          <<None, NonAscii, None>>,
          <<None, None, NonAscii>>,
          <<None, None, Cookie(<<CookiePair("session", Garbage)>>)>>}
    \* several carriers
    \cup {<<Bearer(t1), Legacy(t2), c>> :
            t1 \in DecoyTokens(h), t2 \in DecoyTokens(h),
            c \in {None} \cup {AuthCookie(t3) : t3 \in DecoyTokens(h)}}
    \cup {<<None, Legacy(t1), AuthCookie(t2)>> :
            t1 \in DecoyTokens(h), t2 \in DecoyTokens(h)}
    \cup {<<a, Legacy(t1), AuthCookie(t2)>> :
            a \in {Authorization("bearer ", Garbage), NonAscii},
            t1 \in HeldTokens(h), t2 \in {Garbage}}
    \cup {<<None, NonAscii, AuthCookie(t)>> : t \in HeldTokens(h)}
    \cup {<<None, None, Cookie(<<CookiePair("session", Garbage), CookiePair("auth_token", t1),
                                CookiePair("auth_token", Garbage)>>)>> :
            t1 \in HeldTokens(h)}

\* The carriers of the requests sent to the second protected route.
BasicCarriers(h, e) ==
    {<<None, None, None>>, <<Bearer(Garbage), None, None>>}
    \cup {<<Bearer(t), None, None>> : t \in HeldTokens(h)}

ProtectedRequests(h, e) ==
    {Request("update_user", c[1], c[2], c[3], NoBody) : c \in Carriers(h, e)}
    \cup {Request("change_password", c[1], c[2], c[3], NoBody) : c \in BasicCarriers(h, e)}
LoginRequests == {Request("login", None, None, None, b) : b \in LoginBodies}

NoClaims == None
NoExtensions == [user_id |-> None, role |-> None]
NotObserved == [decode |-> None, expiry |-> None, key |-> None, validation |-> None]
NoArgs == [none |-> TRUE]
NoLocals == [none |-> TRUE]
IdleRequest == Request("none", None, None, None, NoBody)

\* ---------------------------------------------------------------- initial
InitSlots ==
    /\ req = [r \in Reqs |-> IdleRequest]
    /\ pc = [r \in Reqs |-> "idle"]
    /\ token = [r \in Reqs |-> None]
    /\ claims = [r \in Reqs |-> NoClaims]
    /\ user_id = [r \in Reqs |-> None]
    /\ extensions = [r \in Reqs |-> NoExtensions]
    /\ response = [r \in Reqs |-> NoResponse]
    /\ invoked = [r \in Reqs |-> 0]
    /\ observed = [r \in Reqs |-> NotObserved]
    /\ trace = [r \in Reqs |-> <<>>]
    /\ log = [r \in Reqs |-> <<>>]
    /\ args = [r \in Reqs |-> NoArgs]

Init ==
    /\ now = 0
    /\ env \in Environments
    /\ jwtCrate \in CrateReleases
    /\ DECODING_KEY = None
    /\ JWT_VALIDATION = None
    /\ users = InitialUsers
    /\ held = None
    /\ active = {1}
    /\ inits = [key |-> 0, validation |-> 0]
    /\ ret = [r \in Reqs |-> None]
    /\ locals = [r \in Reqs |-> NoLocals]
    /\ InitSlots

\* ---------------------------------------------------------------- actions
Done(r, resp) ==
    /\ response' = [response EXCEPT ![r] = resp]
    /\ pc' = [pc EXCEPT ![r] = "done"]

Logged(r, event) == log' = [log EXCEPT ![r] = Append(@, event)]
Staged(r, stage) == trace' = [trace EXCEPT ![r] = Append(@, stage)]

\* Positions of a task at which the passing of time is observable: before
\* the request is handled, between the two clock reads of the synchronous
\* part of auth_middleware (decode, line 161), and while the handler is
\* awaited.  Time that passes at another position is indistinguishable from
\* time that passes at the next of these.
ClockPoints == {"idle", "expiry", "handler"}

\* The clock advances.
Tick ==
    /\ \A r \in active : pc[r] \in ClockPoints
    /\ \E t \in Instants : t > now /\ now' = t
    /\ UNCHANGED <<args, inits, ret, locals>>
    /\ UNCHANGED <<env, jwtCrate, DECODING_KEY, JWT_VALIDATION, users, held, active,
                   req, pc, token, claims, user_id, extensions, response, invoked,
                   observed, trace, log>>

\* handle_request: a request arrives on a free slot and is routed: login is
\* public, the protected routes are wrapped in auth_middleware.
Receive(r) ==
    /\ r \in active
    /\ pc[r] = "idle"
    /\ \E q \in LoginRequests \cup ProtectedRequests(held, env) :
          /\ req' = [req EXCEPT ![r] = q]
          /\ pc' = [pc EXCEPT ![r] = IF q.route = "login" THEN "login" ELSE "extract"]
    /\ UNCHANGED <<args, inits, ret, locals>>
    /\ UNCHANGED <<now, env, jwtCrate, DECODING_KEY, JWT_VALIDATION, users, held, active,
                   token, claims, user_id, extensions, response, invoked, observed,
                   trace, log>>

\* A login_service that passes on the failure of find_user_by_email.
login_service_not_found(body, table, e, t) ==
    LET found == find_user_by_email(body.email, table)
    IN  IF ~found.ok
        THEN [ok |-> FALSE, err |-> found.err, token |-> None, user |-> None]
        ELSE LET u == Unwrap(found.user)
                 v == verify_password(body.password, u.password_hash)
             IN  IF v.ok /\ v.val
                 THEN [ok |-> TRUE, err |-> "none",
                       token |-> Some(generate_token(u.id, u.email, u.role, e, t)),
                       user |-> Some(UserResponse(u))]
                 ELSE [ok |-> FALSE, err |-> "Unauthorized", token |-> None, user |-> None]

\* login_service: validate, find the user by email (every failure becomes
\* Unauthorized), verify the password, refuse an inactive account, issue.
login_service(body, table, e, t) ==
    IF body.email \in MalformedEmails \/ body.password = ""
    THEN [ok |-> FALSE, err |-> "ValidationError", token |-> None, user |-> None]
    ELSE LET found == find_user_by_email(body.email, table)
         IN  IF ~found.ok
             THEN [ok |-> FALSE, err |-> "Unauthorized", token |-> None, user |-> None]
             ELSE LET u == Unwrap(found.user)
                      v == verify_password(body.password, u.password_hash)
                  IN  IF ~v.ok
                      THEN [ok |-> FALSE, err |-> v.err, token |-> None, user |-> None]
                      ELSE IF ~v.val
                      THEN [ok |-> FALSE, err |-> "Unauthorized", token |-> None, user |-> None]
                      ELSE IF ~u.is_active
                      THEN [ok |-> FALSE, err |-> "Forbidden", token |-> None, user |-> None]
                      ELSE [ok |-> TRUE, err |-> "none",
                            token |-> Some(generate_token(u.id, u.email, u.role, e, t)),
                            user |-> Some(UserResponse(u))]

\* controllers::user::login: parse the body, validate, call login_service,
\* answer with the token or with the error's response.
Login(r) ==
    /\ r \in active
    /\ pc[r] = "login"
    /\ LET rid == request_id_of(req[r])
           body == req[r].body
       IN  IF body.kind # "json"
           THEN /\ Done(r, into_response("BadRequest", "bad body", None))
                /\ UNCHANGED held
           ELSE IF body.email \in MalformedEmails \/ body.password = ""
           THEN /\ Done(r, into_response("ValidationError", "field errors", rid))
                /\ UNCHANGED held
           ELSE LET res == login_service(body, users, env, now)
                IN  IF res.ok
                    THEN /\ Done(r, json_response([token |-> Unwrap(res.token),
                                                   user |-> Unwrap(res.user)], 200, rid))
                         /\ held' = res.token
                    ELSE /\ Done(r, into_response(res.err, "account deactivated", rid))
                         /\ UNCHANGED held
    /\ Staged(r, "login")
    /\ UNCHANGED <<args, inits, ret, locals>>
    /\ UNCHANGED <<now, env, jwtCrate, DECODING_KEY, JWT_VALIDATION, users, active,
                   req, token, claims, user_id, extensions, invoked, observed, log>>

\* auth_middleware, lines 105-116: extract the token; none: 401 Unauthorized.
ExtractToken(r) ==
    /\ r \in active
    /\ pc[r] = "extract"
    /\ Staged(r, "extract")
    /\ LET found == extract_token(req[r])
       IN  IF IsSome(found)
           THEN /\ token' = [token EXCEPT ![r] = found]
                /\ pc' = [pc EXCEPT ![r] = "decode"]
                /\ UNCHANGED <<response, log>>
           ELSE /\ Logged(r, "warn: missing token")
                /\ Done(r, into_response("Unauthorized", "", request_id_of(req[r])))
                /\ UNCHANGED token
    /\ UNCHANGED <<args, inits, ret, locals>>
    /\ UNCHANGED <<now, env, jwtCrate, DECODING_KEY, JWT_VALIDATION, users, held, active,
                   req, claims, user_id, extensions, invoked, observed>>

\* One log event for every decode error.
DecodeErrorEvent_generic(kind) == "warn: token validation error"

\* The log event auth_middleware writes for a decode error.
DecodeErrorEvent(kind) ==
    CASE kind = "ExpiredSignature" -> "info: expired token"
      [] kind = "InvalidSignature" -> "warn: invalid signature"
      [] OTHER -> "warn: token validation error"

\* The conversion From<jsonwebtoken::errors::Error> used in its place.
decode_error_from(kind) ==
    CASE kind = "ExpiredSignature" -> "InvalidToken"
      [] kind = "InvalidToken" -> "InvalidToken"
      [] OTHER -> "Unauthorized"

\* An expired token answered as a missing one.
decode_error_expired_unauthorized(kind) ==
    CASE kind = "ExpiredSignature" -> "Unauthorized"
      [] kind = "InvalidSignature" -> "InvalidToken"
      [] OTHER -> "InvalidToken"

\* The AppError auth_middleware answers a decode error with: every arm of
\* the match on err.kind() returns InvalidToken.
decode_error(kind) ==
    CASE kind = "ExpiredSignature" -> "InvalidToken"
      [] kind = "InvalidSignature" -> "InvalidToken"
      [] OTHER -> "InvalidToken"

\* auth_middleware, lines 118-158: decode and validate the token with the
\* once-initialised key and validation; every error: 401 InvalidToken.
DecodeToken(r) ==
    /\ r \in active
    /\ pc[r] = "decode"
    /\ Staged(r, "decode")
    /\ DECODING_KEY' = get_or_init(DECODING_KEY, get_jwt_key_init(env))
    /\ JWT_VALIDATION' = get_or_init(JWT_VALIDATION, get_jwt_validation_init(env))
    /\ LET res == decode(Unwrap(token[r]), Unwrap(DECODING_KEY'), Unwrap(JWT_VALIDATION'),
                         now, jwtCrate)
       IN  IF res.ok
           THEN /\ claims' = [claims EXCEPT ![r] = res.claims]
                /\ pc' = [pc EXCEPT ![r] = "expiry"]
                /\ UNCHANGED <<response, log>>
           ELSE /\ Logged(r, DecodeErrorEvent(res.kind))
                /\ Done(r, into_response(decode_error(res.kind), "", request_id_of(req[r])))
                /\ UNCHANGED claims
    /\ inits' = [key |-> inits.key + (IF IsSome(DECODING_KEY) THEN 0 ELSE 1),
                 validation |-> inits.validation + (IF IsSome(JWT_VALIDATION) THEN 0 ELSE 1)]
    /\ observed' = [observed EXCEPT ![r].decode = Some(now),
                                    ![r].key = DECODING_KEY',
                                    ![r].validation = JWT_VALIDATION']
    /\ UNCHANGED <<args, ret, locals>>
    /\ UNCHANGED <<now, env, jwtCrate, users, held, active, req, token, user_id,
                   extensions, invoked>>

\* The additional expiry test left out.
is_expired_never(c, t) == FALSE

\* The additional expiry test of auth_middleware, line 166.
is_expired(c, t) == c.exp < t

\* auth_middleware, lines 160-174: the clock is read again; exp < now: 401
\* InvalidToken.
CheckExpiry(r) ==
    /\ r \in active
    /\ pc[r] = "expiry"
    /\ Staged(r, "expiry")
    /\ IF is_expired(Unwrap(claims[r]), now)
       THEN /\ Logged(r, "info: token expired")
            /\ Done(r, into_response("InvalidToken", "", request_id_of(req[r])))
       ELSE /\ pc' = [pc EXCEPT ![r] = "subject"]
            /\ UNCHANGED <<response, log>>
    /\ observed' = [observed EXCEPT ![r].expiry = Some(now)]
    /\ UNCHANGED <<args, inits, ret, locals>>
    /\ UNCHANGED <<now, env, jwtCrate, DECODING_KEY, JWT_VALIDATION, users, held, active,
                   req, token, claims, user_id, extensions, invoked>>

\* auth_middleware, lines 176-187: parse claims.sub; error: 401 InvalidToken.
ParseSubject(r) ==
    /\ r \in active
    /\ pc[r] = "subject"
    /\ Staged(r, "subject")
    /\ LET parsed == Uuid_parse_str(Unwrap(claims[r]).sub)
       IN  IF parsed.ok
           THEN /\ user_id' = [user_id EXCEPT ![r] = Some(parsed.id)]
                /\ pc' = [pc EXCEPT ![r] = "bind"]
                /\ UNCHANGED <<response, log>>
           ELSE /\ Logged(r, "warn: bad uuid")
                /\ Done(r, into_response("InvalidToken", "", request_id_of(req[r])))
                /\ UNCHANGED user_id
    /\ UNCHANGED <<args, inits, ret, locals>>
    /\ UNCHANGED <<now, env, jwtCrate, DECODING_KEY, JWT_VALIDATION, users, held, active,
                   req, token, claims, extensions, invoked, observed>>

\* auth_middleware that answers right after binding, without the handler.
BindIdentity_no_call(r) ==
    /\ r \in active
    /\ pc[r] = "bind"
    /\ Staged(r, "bind")
    /\ extensions' = [extensions EXCEPT ![r] =
                        [user_id |-> user_id[r], role |-> Some(Unwrap(claims[r]).role)]]
    /\ Logged(r, "debug: authenticated")
    /\ Done(r, json_response([handler |-> req[r].route, user_id |-> Unwrap(user_id[r])],
                             200, request_id_of(req[r])))
    /\ UNCHANGED <<args, inits, ret, locals>>
    /\ UNCHANGED <<now, env, jwtCrate, DECODING_KEY, JWT_VALIDATION, users, held, active,
                   req, token, claims, user_id, invoked, observed>>

\* A gate that keeps one identity for the process: binding writes it into
\* the context of every request.
BindIdentity_shared(r) ==
    /\ r \in active
    /\ pc[r] = "bind"
    /\ Staged(r, "bind")
    /\ extensions' = [q \in Reqs |->
                        [user_id |-> user_id[r], role |-> Some(Unwrap(claims[r]).role)]]
    /\ Logged(r, "debug: authenticated")
    /\ pc' = [pc EXCEPT ![r] = "call"]
    /\ UNCHANGED <<args, inits, ret, locals>>
    /\ UNCHANGED <<now, env, jwtCrate, DECODING_KEY, JWT_VALIDATION, users, held, active,
                   req, token, claims, user_id, response, invoked, observed>>

\* A gate that reads the role of the identity off the email claim: the
\* holder of an address of the administrators is bound as Admin.
BindIdentity_by_email(r) ==
    /\ r \in active
    /\ pc[r] = "bind"
    /\ Staged(r, "bind")
    /\ extensions' = [extensions EXCEPT ![r] =
                        [user_id |-> user_id[r],
                         role |-> Some(IF Unwrap(claims[r]).email = "admin@example.com"
                                       THEN "Admin"
                                       ELSE Unwrap(claims[r]).role)]]
    /\ Logged(r, "debug: authenticated")
    /\ pc' = [pc EXCEPT ![r] = "call"]
    /\ UNCHANGED <<args, inits, ret, locals>>
    /\ UNCHANGED <<now, env, jwtCrate, DECODING_KEY, JWT_VALIDATION, users, held, active,
                   req, token, claims, user_id, response, invoked, observed>>

\* auth_middleware, lines 189-212: insert user_id and claims.role into the
\* request extensions.
BindIdentity(r) ==
    /\ r \in active
    /\ pc[r] = "bind"
    /\ Staged(r, "bind")
    /\ extensions' = [extensions EXCEPT ![r] =
                        [user_id |-> user_id[r], role |-> Some(Unwrap(claims[r]).role)]]
    /\ Logged(r, "debug: authenticated")
    /\ pc' = [pc EXCEPT ![r] = "call"]
    /\ UNCHANGED <<args, inits, ret, locals>>
    /\ UNCHANGED <<now, env, jwtCrate, DECODING_KEY, JWT_VALIDATION, users, held, active,
                   req, token, claims, user_id, response, invoked, observed>>

\* auth_middleware, line 215: handler(req, pool)
CallHandler(r) ==
    /\ r \in active
    /\ pc[r] = "call"
    /\ Staged(r, "handler")
    /\ invoked' = [invoked EXCEPT ![r] = @ + 1]
    /\ pc' = [pc EXCEPT ![r] = "handler"]
    /\ UNCHANGED <<args, inits, ret, locals>>
    /\ UNCHANGED <<now, env, jwtCrate, DECODING_KEY, JWT_VALIDATION, users, held, active,
                   req, token, claims, user_id, extensions, response, observed, log>>

\* The protected handler (update_user, change_password): it reads the user
\* id from the extensions, 401 Unauthorized if there is none, and answers.
HandlerReturn(r) ==
    /\ r \in active
    /\ pc[r] = "handler"
    /\ IF IsSome(extensions[r].user_id)
       THEN Done(r, json_response([handler |-> req[r].route,
                                   user_id |-> Unwrap(extensions[r].user_id)],
                                  200, request_id_of(req[r])))
       ELSE Done(r, into_response("Unauthorized", "", None))
    /\ UNCHANGED <<args, inits, ret, locals>>
    /\ UNCHANGED <<now, env, jwtCrate, DECODING_KEY, JWT_VALIDATION, users, held, active,
                   req, token, claims, user_id, extensions, invoked, observed, trace, log>>

\* The response has been written and the task ends: the request, its
\* extensions and its locals are dropped.
Finish(r) ==
    /\ r \in active
    /\ pc[r] = "done"
    /\ req' = [req EXCEPT ![r] = IdleRequest]
    /\ pc' = [pc EXCEPT ![r] = "idle"]
    /\ token' = [token EXCEPT ![r] = None]
    /\ claims' = [claims EXCEPT ![r] = NoClaims]
    /\ user_id' = [user_id EXCEPT ![r] = None]
    /\ extensions' = [extensions EXCEPT ![r] = NoExtensions]
    /\ response' = [response EXCEPT ![r] = NoResponse]
    /\ invoked' = [invoked EXCEPT ![r] = 0]
    /\ observed' = [observed EXCEPT ![r] = NotObserved]
    /\ trace' = [trace EXCEPT ![r] = <<>>]
    /\ log' = [log EXCEPT ![r] = <<>>]
    /\ UNCHANGED <<args, inits, ret, locals>>
    /\ UNCHANGED <<now, env, jwtCrate, DECODING_KEY, JWT_VALIDATION, users, held, active>>

Next ==
    \/ Tick
    \/ \E r \in Reqs : Receive(r)
    \/ \E r \in Reqs : Login(r)
    \/ \E r \in Reqs : ExtractToken(r)
    \/ \E r \in Reqs : DecodeToken(r)
    \/ \E r \in Reqs : CheckExpiry(r)
    \/ \E r \in Reqs : ParseSubject(r)
    \/ \E r \in Reqs : BindIdentity(r)
    \/ \E r \in Reqs : CallHandler(r)
    \/ \E r \in Reqs : HandlerReturn(r)
    \/ \E r \in Reqs : Finish(r)

Spec == Init /\ [][Next]_vars

\* A task of the gate advances: each stage is synchronous code, the handler
\* is awaited under the request deadline of main.
GateStep(r) ==
    \/ ExtractToken(r)
    \/ DecodeToken(r)
    \/ CheckExpiry(r)
    \/ ParseSubject(r)
    \/ BindIdentity(r)
    \/ CallHandler(r)
    \/ HandlerReturn(r)

FairSpec == Spec /\ \A r \in Reqs : WF_vars(GateStep(r))

\* ------------------------------------------------------------ role gate
\* The X-Request-ID header of a request: absent, a visible ASCII value, or a
\* value to_str() refuses.
RequestIds ==
    {None, Some([ascii |-> TRUE, value |-> "req-1"]), Some([ascii |-> FALSE, value |-> "req-bin"])}

WithRequestId(q, x) == [q EXCEPT !.x_request_id = x]

\* Capability levels ordered User < Moderator < Admin.
RoleRank(role) == CASE role = "User" -> 1 [] role = "Moderator" -> 2 [] role = "Admin" -> 3

\* A gate that lets every higher level pass.
insufficient_rights_ranked(user_role, required_role) ==
    RoleRank(user_role) < RoleRank(required_role)

\* role_middleware, line 240: user_role != required_role && user_role != Admin
insufficient_rights(user_role, required_role) ==
    user_role # required_role /\ user_role # "Admin"

\* The identities a request can carry in its extensions when role_middleware
\* is applied to it: what auth_middleware bound, or nothing.
RoleIdentities ==
    [user_id : {None, Some(1), Some(2)}, role : {None} \cup {Some(x) : x \in UserRole}]

RoleCalls == {[required_role |-> x] : x \in UserRole}

\* A role gate that takes a missing role for the lowest level.
RoleMiddleware_default_role(r) ==
    /\ r \in active
    /\ pc[r] = "role"
    /\ Staged(r, "role")
    /\ LET user_role == IF extensions[r].role = None THEN "User"
                        ELSE Unwrap(extensions[r].role)
       IN  IF insufficient_rights(user_role, args[r].required_role)
           THEN /\ Logged(r, "warn: access denied")
                /\ Done(r, into_response("Forbidden",
                                         "insufficient rights, required role: "
                                            \o args[r].required_role,
                                         request_id_of(req[r])))
                /\ UNCHANGED invoked
           ELSE /\ invoked' = [invoked EXCEPT ![r] = @ + 1]
                /\ pc' = [pc EXCEPT ![r] = "handler"]
                /\ UNCHANGED <<response, log>>
    /\ UNCHANGED <<now, env, jwtCrate, DECODING_KEY, JWT_VALIDATION, users, held, active,
                   req, token, claims, user_id, extensions, observed, args, inits, ret, locals>>

\* role_middleware(req, pool, required_role, handler), lines 219-268
RoleMiddleware(r) ==
    /\ r \in active
    /\ pc[r] = "role"
    /\ Staged(r, "role")
    /\ IF extensions[r].role = None
       THEN /\ Logged(r, "error: role missing")
            /\ Done(r, into_response("Unauthorized", "", None))
            /\ UNCHANGED invoked
       ELSE IF insufficient_rights(Unwrap(extensions[r].role), args[r].required_role)
       THEN /\ Logged(r, "warn: access denied")
            /\ Done(r, into_response("Forbidden",
                                     "insufficient rights, required role: "
                                        \o args[r].required_role,
                                     request_id_of(req[r])))
            /\ UNCHANGED invoked
       ELSE /\ invoked' = [invoked EXCEPT ![r] = @ + 1]
            /\ pc' = [pc EXCEPT ![r] = "handler"]
            /\ UNCHANGED <<response, log>>
    /\ UNCHANGED <<now, env, jwtCrate, DECODING_KEY, JWT_VALIDATION, users, held, active,
                   req, token, claims, user_id, extensions, observed, args, inits, ret, locals>>

\* role_middleware applied to a request with any identity and any
\* requirement.
RoleInit ==
    /\ now = 0
    /\ env \in {e \in Environments : e.JWT_ISSUER = None /\ e.JWT_AUDIENCE = None}
    /\ jwtCrate = [missing |-> "skip"]
    /\ DECODING_KEY = None
    /\ JWT_VALIDATION = None
    /\ users = InitialUsers
    /\ held = None
    /\ active = {1}
    /\ inits = [key |-> 0, validation |-> 0]
    /\ ret = [r \in Reqs |-> None]
    /\ locals = [r \in Reqs |-> NoLocals]
    /\ \E x \in RequestIds, id \in RoleIdentities, c \in RoleCalls :
          /\ req = [r \in Reqs |->
                      IF r = 1
                      THEN WithRequestId(Request("update_user", None, None, None, NoBody), x)
                      ELSE IdleRequest]
          /\ extensions = [r \in Reqs |-> IF r = 1 THEN id ELSE NoExtensions]
          /\ args = [r \in Reqs |-> IF r = 1 THEN c ELSE NoArgs]
    /\ pc = [r \in Reqs |-> IF r = 1 THEN "role" ELSE "idle"]
    /\ token = [r \in Reqs |-> None]
    /\ claims = [r \in Reqs |-> NoClaims]
    /\ user_id = [r \in Reqs |-> None]
    /\ response = [r \in Reqs |-> NoResponse]
    /\ invoked = [r \in Reqs |-> 0]
    /\ observed = [r \in Reqs |-> NotObserved]
    /\ trace = [r \in Reqs |-> <<>>]
    /\ log = [r \in Reqs |-> <<>>]

RoleNext ==
    \/ \E r \in Reqs : RoleMiddleware(r)
    \/ \E r \in Reqs : HandlerReturn(r)

RoleSpec == RoleInit /\ [][RoleNext]_vars

\* ------------------------------------------- concurrent first use, env
\* The values std::env::set_var can give the variables of the signing
\* configuration while the process runs.
RotatedSecret == "secret-2"
RotatedIssuer == Some("issuer-2")

\* std::env::set_var("JWT_SECRET", ..) / ("JWT_ISSUER", ..) in the process
SetEnv ==
    /\ \/ /\ env.JWT_SECRET # RotatedSecret
          /\ env' = [env EXCEPT !.JWT_SECRET = RotatedSecret]
       \/ /\ env.JWT_ISSUER # RotatedIssuer
          /\ env' = [env EXCEPT !.JWT_ISSUER = RotatedIssuer]
    /\ UNCHANGED <<now, jwtCrate, DECODING_KEY, JWT_VALIDATION, users, held, active,
                   req, pc, token, claims, user_id, extensions, response, invoked,
                   observed, trace, log, args, inits, ret, locals>>

\* The requests of the concurrent clients: a login with good credentials,
\* and a protected request with a malformed token or the token held.
RaceRequests(h) ==
    {Request("login", None, None, None,
             [kind |-> "json", email |-> "user@example.com", password |-> "Passw0rd1"])}
    \cup {Request("update_user", Bearer(t), None, None, NoBody) :
              t \in {Garbage} \cup HeldTokens(h)}

RaceReceive(r) ==
    /\ r \in active
    /\ pc[r] = "idle"
    /\ trace[r] = <<>>
    /\ \E q \in RaceRequests(held) :
          /\ req' = [req EXCEPT ![r] = q]
          /\ pc' = [pc EXCEPT ![r] = IF q.route = "login" THEN "login" ELSE "extract"]
    /\ UNCHANGED <<now, env, jwtCrate, DECODING_KEY, JWT_VALIDATION, users, held, active,
                   token, claims, user_id, extensions, response, invoked, observed,
                   trace, log, args, inits, ret, locals>>

\* An initialisation that tests the cell and then runs the initialiser,
\* whoever else is running it.
GetJwtKeyEnter_unsynchronised(r) ==
    /\ r \in active
    /\ pc[r] = "decode"
    /\ DECODING_KEY = None
    /\ pc' = [pc EXCEPT ![r] = "key_init"]
    /\ UNCHANGED <<now, env, jwtCrate, DECODING_KEY, JWT_VALIDATION, users, held, active,
                   req, token, claims, user_id, extensions, response, invoked, observed,
                   trace, log, args, inits, ret, locals>>

\* get_jwt_key, DECODING_KEY.get_or_init: the cell is empty and no task is
\* running the initialiser: this task runs it.  While a task runs it every
\* other caller blocks.
GetJwtKeyEnter(r) ==
    /\ r \in active
    /\ pc[r] = "decode"
    /\ DECODING_KEY = None
    /\ \A s \in Reqs : pc[s] # "key_init"
    /\ pc' = [pc EXCEPT ![r] = "key_init"]
    /\ UNCHANGED <<now, env, jwtCrate, DECODING_KEY, JWT_VALIDATION, users, held, active,
                   req, token, claims, user_id, extensions, response, invoked, observed,
                   trace, log, args, inits, ret, locals>>

\* get_jwt_key, lines 21-24: the initialiser reads JWT_SECRET and the cell
\* is set.
GetJwtKeyInit(r) ==
    /\ r \in active
    /\ pc[r] = "key_init"
    /\ DECODING_KEY' = Some(get_jwt_key_init(env))
    /\ inits' = [inits EXCEPT !.key = @ + 1]
    /\ pc' = [pc EXCEPT ![r] = "decode"]
    /\ UNCHANGED <<now, env, jwtCrate, JWT_VALIDATION, users, held, active,
                   req, token, claims, user_id, extensions, response, invoked, observed,
                   trace, log, args, ret, locals>>

\* get_jwt_validation, JWT_VALIDATION.get_or_init, after get_jwt_key returned
GetJwtValidationEnter(r) ==
    /\ r \in active
    /\ pc[r] = "decode"
    /\ DECODING_KEY # None
    /\ JWT_VALIDATION = None
    /\ \A s \in Reqs : pc[s] # "validation_init"
    /\ pc' = [pc EXCEPT ![r] = "validation_init"]
    /\ UNCHANGED <<now, env, jwtCrate, DECODING_KEY, JWT_VALIDATION, users, held, active,
                   req, token, claims, user_id, extensions, response, invoked, observed,
                   trace, log, args, inits, ret, locals>>

\* get_jwt_validation, lines 29-46
GetJwtValidationInit(r) ==
    /\ r \in active
    /\ pc[r] = "validation_init"
    /\ JWT_VALIDATION' = Some(get_jwt_validation_init(env))
    /\ inits' = [inits EXCEPT !.validation = @ + 1]
    /\ pc' = [pc EXCEPT ![r] = "decode"]
    /\ UNCHANGED <<now, env, jwtCrate, DECODING_KEY, users, held, active,
                   req, token, claims, user_id, extensions, response, invoked, observed,
                   trace, log, args, ret, locals>>

\* decode(&token, get_jwt_key(), get_jwt_validation()) with both cells set
DecodeInitialised(r) ==
    /\ DECODING_KEY # None
    /\ JWT_VALIDATION # None
    /\ DecodeToken(r)

\* Every slot serves one request, all of them at once; the environment may
\* be changed at any moment.
RaceInit ==
    /\ now = 0
    /\ env \in {e \in Environments : e.JWT_AUDIENCE = None}
    /\ jwtCrate = [missing |-> "skip"]
    /\ DECODING_KEY = None
    /\ JWT_VALIDATION = None
    /\ users = InitialUsers
    /\ held = None
    /\ active = Reqs
    /\ inits = [key |-> 0, validation |-> 0]
    /\ ret = [r \in Reqs |-> None]
    /\ locals = [r \in Reqs |-> NoLocals]
    /\ InitSlots

RaceNext ==
    \/ SetEnv
    \/ \E r \in Reqs : RaceReceive(r)
    \/ \E r \in Reqs : Login(r)
    \/ \E r \in Reqs : ExtractToken(r)
    \/ \E r \in Reqs : GetJwtKeyEnter(r)
    \/ \E r \in Reqs : GetJwtKeyInit(r)
    \/ \E r \in Reqs : GetJwtValidationEnter(r)
    \/ \E r \in Reqs : GetJwtValidationInit(r)
    \/ \E r \in Reqs : DecodeInitialised(r)
    \/ \E r \in Reqs : CheckExpiry(r)
    \/ \E r \in Reqs : ParseSubject(r)
    \/ \E r \in Reqs : BindIdentity(r)
    \/ \E r \in Reqs : CallHandler(r)
    \/ \E r \in Reqs : HandlerReturn(r)

RaceSpec == RaceInit /\ [][RaceNext]_vars

\* ---------------------------------------------------------- error rendering
\* The values of AppError: every kind, with the payloads of the kinds that
\* carry one.
Payloads == {"", "users.email", "connection refused: postgres://app:pw@db/app"}
AppErrors ==
    {[kind |-> k, payload |-> ""] : k \in {"Unauthorized", "InvalidToken", "RateLimited",
                                          "ServiceUnavailable"}}
    \cup {[kind |-> k, payload |-> m] :
            k \in ErrorKinds \ {"Unauthorized", "InvalidToken", "RateLimited",
                                "ServiceUnavailable"},
            m \in Payloads}

\* err.into_response(request_id) for the error and request of slot r
Render(r) ==
    /\ r \in active
    /\ pc[r] = "render"
    /\ Staged(r, "render")
    /\ Done(r, into_response(args[r].kind, args[r].payload, request_id_of(req[r])))
    /\ log' = [log EXCEPT ![r] = @ \o into_response_log(args[r].kind, args[r].payload,
                                                        request_id_of(req[r]))]
    /\ UNCHANGED <<now, env, jwtCrate, DECODING_KEY, JWT_VALIDATION, users, held, active,
                   req, token, claims, user_id, extensions, invoked, observed, args, inits, ret, locals>>

\* into_response applied to any error, for a request with any X-Request-ID,
\* at any time.
RenderInit ==
    /\ now \in Instants
    /\ env \in {e \in Environments : e.JWT_ISSUER = None /\ e.JWT_AUDIENCE = None}
    /\ jwtCrate = [missing |-> "skip"]
    /\ DECODING_KEY = None
    /\ JWT_VALIDATION = None
    /\ users = InitialUsers
    /\ held = None
    /\ active = {1}
    /\ inits = [key |-> 0, validation |-> 0]
    /\ ret = [r \in Reqs |-> None]
    /\ locals = [r \in Reqs |-> NoLocals]
    /\ \E x \in RequestIds, e \in AppErrors :
          /\ req = [r \in Reqs |->
                      IF r = 1
                      THEN WithRequestId(Request("none", None, None, None, NoBody), x)
                      ELSE IdleRequest]
          /\ args = [r \in Reqs |-> IF r = 1 THEN e ELSE NoArgs]
    /\ pc = [r \in Reqs |-> IF r = 1 THEN "render" ELSE "idle"]
    /\ token = [r \in Reqs |-> None]
    /\ claims = [r \in Reqs |-> NoClaims]
    /\ user_id = [r \in Reqs |-> None]
    /\ extensions = [r \in Reqs |-> NoExtensions]
    /\ response = [r \in Reqs |-> NoResponse]
    /\ invoked = [r \in Reqs |-> 0]
    /\ observed = [r \in Reqs |-> NotObserved]
    /\ trace = [r \in Reqs |-> <<>>]
    /\ log = [r \in Reqs |-> <<>>]

RenderNext == \E r \in Reqs : Render(r)

RenderSpec == RenderInit /\ [][RenderNext]_vars

\* ------------------------------------------------- requests with a trace id
\* Requests of every kind of failure, each with and without X-Request-ID: an
\* unreadable body, invalid fields, wrong credentials, good credentials, and
\* protected requests with no token, a malformed token, the token held.
TraceBodies ==
    {[kind |-> "garbage", email |-> "", password |-> ""],
     [kind |-> "json", email |-> "not-an-email", password |-> "Passw0rd1"],
     [kind |-> "json", email |-> "user@example.com", password |-> "Passw0rd2"],
     [kind |-> "json", email |-> "user@example.com", password |-> "Passw0rd1"]}

TraceRequests(h) ==
    {WithRequestId(q, x) :
        q \in {Request("login", None, None, None, b) : b \in TraceBodies}
              \cup {Request("update_user", None, None, None, NoBody)}
              \cup {Request("update_user", Bearer(t), None, None, NoBody) :
                        t \in {Garbage} \cup HeldTokens(h)},
        x \in RequestIds}

TraceReceive(r) ==
    /\ r \in active
    /\ pc[r] = "idle"
    /\ \E q \in TraceRequests(held) :
          /\ req' = [req EXCEPT ![r] = q]
          /\ pc' = [pc EXCEPT ![r] = IF q.route = "login" THEN "login" ELSE "extract"]
    /\ UNCHANGED <<now, env, jwtCrate, DECODING_KEY, JWT_VALIDATION, users, held, active,
                   token, claims, user_id, extensions, response, invoked, observed,
                   trace, log, args, inits, ret, locals>>

TraceNext ==
    \/ \E r \in Reqs : TraceReceive(r)
    \/ \E r \in Reqs : Login(r)
    \/ \E r \in Reqs : ExtractToken(r)
    \/ \E r \in Reqs : DecodeToken(r)
    \/ \E r \in Reqs : CheckExpiry(r)
    \/ \E r \in Reqs : ParseSubject(r)
    \/ \E r \in Reqs : BindIdentity(r)
    \/ \E r \in Reqs : CallHandler(r)
    \/ \E r \in Reqs : HandlerReturn(r)
    \/ \E r \in Reqs : Finish(r)

TraceSpec == Init /\ [][TraceNext]_vars

\* --------------------------------------------------- concurrent identities
\* The tokens login_service issued to the active accounts at the start.
IssuedTokens(e) ==
    {generate_token(u.id, u.email, u.role, e, 0) : u \in {x \in InitialUsers : x.is_active}}

ConcurrentRequests(e) ==
    {Request(route, Bearer(t), None, None, NoBody) :
        route \in ProtectedRoutes, t \in IssuedTokens(e) \cup {Garbage}}

\* hyper serves each connection on its own task: the requests of several
\* clients are in the gate at once.
ConcurrentReceive(r) ==
    /\ r \in active
    /\ pc[r] = "idle"
    /\ \E q \in ConcurrentRequests(env) :
          /\ req' = [req EXCEPT ![r] = q]
          /\ pc' = [pc EXCEPT ![r] = "extract"]
    /\ UNCHANGED <<now, env, jwtCrate, DECODING_KEY, JWT_VALIDATION, users, held, active,
                   token, claims, user_id, extensions, response, invoked, observed,
                   trace, log, args, inits, ret, locals>>

ConcurrentInit ==
    /\ now = 0
    /\ env \in {e \in Environments : e.JWT_ISSUER = None /\ e.JWT_AUDIENCE = None}
    /\ jwtCrate = [missing |-> "skip"]
    /\ DECODING_KEY = None
    /\ JWT_VALIDATION = None
    /\ users = InitialUsers
    /\ held = None
    /\ active = Reqs
    /\ inits = [key |-> 0, validation |-> 0]
    /\ ret = [r \in Reqs |-> None]
    /\ locals = [r \in Reqs |-> NoLocals]
    /\ InitSlots

ConcurrentNext ==
    \E r \in Reqs :
        \/ ConcurrentReceive(r)
        \/ ExtractToken(r)
        \/ DecodeToken(r)
        \/ CheckExpiry(r)
        \/ ParseSubject(r)
        \/ BindIdentity(r)
        \/ CallHandler(r)
        \/ HandlerReturn(r)
        \/ Finish(r)

ConcurrentSpec == ConcurrentInit /\ [][ConcurrentNext]_vars

\* ------------------------------------------------------- request validation
\* models.rs PASSWORD_REGEX: a pattern made of three look-ahead assertions.
PASSWORD_REGEX_PATTERN == [text |-> "^(?=.*[a-z])(?=.*[A-Z])(?=.*\\d).{8,}$",
                          look_around |-> TRUE]

\* regex::Regex::new: the regex crate has no look-around; a pattern that uses
\* it is refused with a syntax error.
Regex_new(pattern) ==
    IF pattern.look_around THEN [ok |-> FALSE, err |-> "Syntax"]
    ELSE [ok |-> TRUE, err |-> "none"]

\* lazy_static PASSWORD_REGEX: Regex::new(..).unwrap(), run on first use; the
\* unwrap of a refused pattern panics, on this use and on every later one.
PASSWORD_REGEX == IF Regex_new(PASSWORD_REGEX_PATTERN).ok THEN "compiled" ELSE "panic"

\* Values of the request fields that break a rule of their validator.
ShortNames == {"A"}
WeakPasswords == {"123", ""}
Ages == 13..120

\* UserRequest::validate: every field's validators run, the password's regex
\* among them.
UserRequest_validate(q) ==
    IF PASSWORD_REGEX = "panic" THEN "panic"
    ELSE IF \/ q.name \in ShortNames
            \/ q.email \in MalformedEmails
            \/ q.password \in WeakPasswords
            \/ q.age \notin Ages
         THEN "ValidationError"
         ELSE "ok"

\* UpdateUserRequest::validate: a rule applies to a field that is supplied.
UpdateUserRequest_validate(q) ==
    IF \/ IsSome(q.name) /\ Unwrap(q.name) \in ShortNames
       \/ IsSome(q.age) /\ Unwrap(q.age) \notin Ages
    THEN "ValidationError"
    ELSE "ok"

\* ---------------------------------------------------------------- services
Ok(v) == [ok |-> TRUE, err |-> "none", val |-> v]
Err(kind) == [ok |-> FALSE, err |-> kind, val |-> None]

\* SaltString::generate(&mut OsRng)
Salts == {"salt-4", "salt-5"}

\* hash_password with the salt drawn: the PHC string of the password
hash_password(password, salt) == Ok(PhcString(salt, password))

\* repositories::user::find_user_by_id: RowNotFound becomes NotFound; an
\* inactive row is returned like any other.
find_user_by_id(id, table) ==
    LET rows == {u \in table : u.id = id}
    IN  IF rows = {} THEN Err("NotFound") ELSE Ok(CHOOSE u \in rows : TRUE)

\* repositories::user::create_user: the INSERT; the unique constraint
\* users_email_key refuses a second row with the email, whatever its state.
create_user(user, table) ==
    IF \E u \in table : u.email = user.email
    THEN [res |-> Err("Conflict"), table |-> table]
    ELSE [res |-> Ok(user), table |-> table \cup {user}]

\* An UPDATE without COALESCE: a field that is not supplied is emptied.
update_user_row_no_coalesce(u, q, updated_at) ==
    [u EXCEPT !.name = IF IsSome(q.name) THEN Unwrap(q.name) ELSE "",
              !.age = IF IsSome(q.age) THEN Unwrap(q.age) ELSE 0,
              !.updated_at = updated_at]

\* The UPDATE of repositories::user::update_user on the row of user_id:
\* COALESCE keeps a field whose parameter is NULL.
update_user_row(u, q, updated_at) ==
    [u EXCEPT !.name = IF IsSome(q.name) THEN Unwrap(q.name) ELSE @,
              !.age = IF IsSome(q.age) THEN Unwrap(q.age) ELSE @,
              !.updated_at = updated_at]

\* An UPDATE that stamps the row and leaves its password_hash.
update_user_password_row_stamp_only(u, password_hash, updated_at) ==
    [u EXCEPT !.updated_at = updated_at]

\* An UPDATE that also sets is_active: a password change reactivates the row.
update_user_password_row_reactivates(u, password_hash, updated_at) ==
    [u EXCEPT !.password_hash = password_hash, !.updated_at = updated_at,
              !.is_active = TRUE]

\* The UPDATE of repositories::user::update_user_password
update_user_password_row(u, password_hash, updated_at) ==
    [u EXCEPT !.password_hash = password_hash, !.updated_at = updated_at]

\* The table with the row of id replaced.
Replaced(table, id, row) == {u \in table : u.id # id} \cup {row}


\* --------------------------------------------------------- request deadline
\* main: tokio::time::timeout(Duration::from_secs(30), handle_request(..))
REQUEST_TIMEOUT_SECONDS == 30

\* Instants around the deadline of a request received at an instant, for a
\* request, its retry and the retry of the retry.
DeadlineInstants ==
    {0, REQUEST_TIMEOUT_SECONDS - 1, REQUEST_TIMEOUT_SECONDS, REQUEST_TIMEOUT_SECONDS + 1,
     2 * REQUEST_TIMEOUT_SECONDS, 2 * REQUEST_TIMEOUT_SECONDS + 1}

\* Positions at which the future of handle_request is pending: the login
\* handler and the protected handlers await the body and the database.  The
\* stages of auth_middleware before the handler have no await.
AwaitPositions == {"login", "handler"}

JsonBody == [kind |-> "json", email |-> "", password |-> ""]

DeadlineRequests(e) ==
    {Request("login", None, None, None, b) :
        b \in {NoBody, [kind |-> "json", email |-> "user@example.com",
                        password |-> "Passw0rd1"]}}
    \cup {Request(route, Bearer(t), None, None, b) :
            route \in ProtectedRoutes,
            t \in {generate_token(1, "user@example.com", "User", e, 0), Garbage},
            b \in {NoBody, JsonBody}}

\* A request arrives and its deadline starts.
DeadlineReceive(r) ==
    /\ r \in active
    /\ pc[r] = "idle"
    /\ now + REQUEST_TIMEOUT_SECONDS \in DeadlineInstants
    /\ \E q \in DeadlineRequests(env) :
          /\ req' = [req EXCEPT ![r] = q]
          /\ pc' = [pc EXCEPT ![r] = IF q.route = "login" THEN "login" ELSE "extract"]
    /\ locals' = [locals EXCEPT ![r] = [started |-> now]]
    /\ UNCHANGED <<now, env, jwtCrate, DECODING_KEY, JWT_VALIDATION, users, held, active,
                   token, claims, user_id, extensions, response, invoked, observed,
                   trace, log, args, inits, ret>>

\* main.rs, lines 131-141: the answer to a request that timed out
timeout_response ==
    [status |-> 408, body |-> [error |-> "Request Timeout", status |-> 408],
     x_trace_id |-> None, x_request_id |-> None]

\* The deadline passes while the future is pending: the future is dropped
\* where it waits and the 408 is answered.
Timeout(r) ==
    /\ r \in active
    /\ pc[r] \in AwaitPositions
    /\ now >= locals[r].started + REQUEST_TIMEOUT_SECONDS
    /\ Done(r, timeout_response)
    /\ Logged(r, "error: request timed out")
    /\ UNCHANGED <<now, env, jwtCrate, DECODING_KEY, JWT_VALIDATION, users, held, active,
                   req, token, claims, user_id, extensions, invoked, observed, trace,
                   args, inits, ret, locals>>

\* The handler validates a request type that has a PASSWORD_REGEX rule:
\* change_password, once its JSON body is parsed.
ValidatesPassword(q) == q.route = "change_password" /\ q.body.kind = "json"

\* controllers::user::change_password, line 314: validate() panics in the
\* initialiser of PASSWORD_REGEX; the task of the connection unwinds and no
\* response is written.
HandlerPanic(r) ==
    /\ r \in active
    /\ pc[r] = "handler"
    /\ IsSome(extensions[r].user_id)
    /\ ValidatesPassword(req[r])
    /\ PASSWORD_REGEX = "panic"
    /\ pc' = [pc EXCEPT ![r] = "panicked"]
    /\ UNCHANGED <<now, env, jwtCrate, DECODING_KEY, JWT_VALIDATION, users, held, active,
                   req, token, claims, user_id, extensions, response, invoked, observed,
                   trace, log, args, inits, ret, locals>>

\* A handler that does not panic answers.
DeadlineHandlerReturn(r) ==
    /\ ~(ValidatesPassword(req[r]) /\ PASSWORD_REGEX = "panic")
    /\ HandlerReturn(r)

\* Time passes while every task waits; the timer of a pending request fires
\* at its deadline, so time does not pass beyond it.
DeadlineTick ==
    /\ \A r \in active : pc[r] \in {"idle"} \cup AwaitPositions
    /\ \E t \in DeadlineInstants :
          /\ t > now
          /\ \A r \in active :
                pc[r] \in AwaitPositions => t <= locals[r].started + REQUEST_TIMEOUT_SECONDS
          /\ now' = t
    /\ UNCHANGED <<env, jwtCrate, DECODING_KEY, JWT_VALIDATION, users, held, active,
                   req, pc, token, claims, user_id, extensions, response, invoked,
                   observed, trace, log, args, inits, ret, locals>>

DeadlineInit ==
    /\ now = 0
    /\ env \in {e \in Environments : e.JWT_ISSUER = None /\ e.JWT_AUDIENCE = None}
    /\ jwtCrate = [missing |-> "skip"]
    /\ DECODING_KEY = None
    /\ JWT_VALIDATION = None
    /\ users = InitialUsers
    /\ held = None
    /\ active = {1}
    /\ inits = [key |-> 0, validation |-> 0]
    /\ ret = [r \in Reqs |-> None]
    /\ locals = [r \in Reqs |-> NoLocals]
    /\ InitSlots

DeadlineNext ==
    \/ DeadlineTick
    \/ \E r \in Reqs :
          \/ DeadlineReceive(r)
          \/ Login(r)
          \/ ExtractToken(r)
          \/ DecodeToken(r)
          \/ CheckExpiry(r)
          \/ ParseSubject(r)
          \/ BindIdentity(r)
          \/ CallHandler(r)
          \/ DeadlineHandlerReturn(r)
          \/ HandlerPanic(r)
          \/ Timeout(r)
          \/ Finish(r)

DeadlineSpec == DeadlineInit /\ [][DeadlineNext]_vars

\* ------------------------------------------------------ calls of a service
ServiceSlots == {1, 2}
MissingId == 9
FreshIds == {4, 5}

CreateRequests ==
    {[name |-> "New User", email |-> e, password |-> "Passw0rd3", age |-> 25] :
        e \in {"new@example.com", "user@example.com", "gone@example.com"}}
    \cup {[name |-> "A", email |-> "new@example.com", password |-> "Passw0rd3", age |-> 25],
          [name |-> "New User", email |-> "not-an-email", password |-> "Passw0rd3", age |-> 25],
          [name |-> "New User", email |-> "new@example.com", password |-> "123", age |-> 25],
          [name |-> "New User", email |-> "new@example.com", password |-> "Passw0rd3", age |-> 8],
          [name |-> "A", email |-> "not-an-email", password |-> "123", age |-> 8]}

ServiceLogins ==
    {[kind |-> "json", email |-> e, password |-> p] :
        e \in {"user@example.com", "gone@example.com", "new@example.com",
               "nobody@example.com", "legacy@example.com"},
        p \in {"Passw0rd1", "Passw0rd3"}}
    \cup {[kind |-> "json", email |-> "not-an-email", password |-> "Passw0rd1"],
          [kind |-> "json", email |-> "user@example.com", password |-> ""]}

UpdateRequests ==
    {[name |-> n, age |-> a] : n \in {None, Some("New Name")}, a \in {None, Some(31)}}
    \cup {[name |-> Some("A"), age |-> None], [name |-> None, age |-> Some(8)]}

ServiceCalls ==
    {[op |-> "create_user_service", req |-> q] : q \in CreateRequests}
    \cup {[op |-> "login_service", req |-> b] : b \in ServiceLogins}
    \cup {[op |-> "update_user_service", user_id |-> 1, req |-> q] : q \in UpdateRequests}
    \cup {[op |-> "update_user_service", user_id |-> MissingId,
           req |-> [name |-> Some("New Name"), age |-> None]]}
    \cup {[op |-> "change_password_service", user_id |-> i, current_password |-> c,
           new_password |-> n] :
            i \in {1, 3}, c \in {"Passw0rd1", "Passw0rd3"}, n \in {"Passw0rd1", "Passw0rd3"}}
    \cup {[op |-> "change_password_service", user_id |-> MissingId,
           current_password |-> "Passw0rd1", new_password |-> "Passw0rd3"]}
    \cup {[op |-> "hash_verify", password |-> p, other |-> o] :
            p \in {"Passw0rd1", "Passw0rd3"}, o \in {"Passw0rd1", "Passw0rd3"}}
    \cup {[op |-> "verify_password", password |-> p, hash |-> h] :
            p \in {"Passw0rd1", "Passw0rd3"},
            h \in {PhcString("salt-1", "Passw0rd1"), MalformedHash}}

\* The call returns v to its caller.
Returned(r, v) ==
    /\ ret' = [ret EXCEPT ![r] = Some(v)]
    /\ pc' = [pc EXCEPT ![r] = "done"]

\* The call panics: its task unwinds and nothing is returned.
Panicked(r) ==
    /\ pc' = [pc EXCEPT ![r] = "panicked"]
    /\ UNCHANGED ret

\* The call goes on to its next await point holding l.
Awaiting(r, position, l) ==
    /\ pc' = [pc EXCEPT ![r] = position]
    /\ locals' = [locals EXCEPT ![r] = l]
    /\ UNCHANGED ret

\* A caller applies a service to arguments.
Invoke(r) ==
    /\ r \in active
    /\ pc[r] = "idle"
    /\ \E c \in ServiceCalls :
          /\ args' = [args EXCEPT ![r] = c]
          /\ pc' = [pc EXCEPT ![r] = c.op]
    /\ UNCHANGED <<now, env, jwtCrate, DECODING_KEY, JWT_VALIDATION, users, held, active,
                   req, token, claims, user_id, extensions, response, invoked, observed,
                   trace, log, inits, ret, locals>>

\* The instants that order the clock reads and the writes of two calls.
ServiceInstants == {t \in Instants : t <= TOKEN_EXPIRY_SECONDS + 1}

\* Time passes while a call is in progress.
ServiceTick ==
    /\ \E r \in active : pc[r] \notin {"idle", "done", "panicked"}
    /\ \E t \in ServiceInstants : t > now /\ now' = t
    /\ UNCHANGED <<env, jwtCrate, DECODING_KEY, JWT_VALIDATION, users, held, active,
                   req, pc, token, claims, user_id, extensions, response, invoked,
                   observed, trace, log, args, inits, ret, locals>>

\* One step of create_user_service: validation and the look-up of the email
\* (an inactive row is refused by find_user_by_email and so is not found),
\* then the hash and the new active User row with a fresh id and the time,
\* then the INSERT.
create_user_service(r) ==
    /\ r \in active
    /\ pc[r] \in {"create_user_service", "create_hash", "create_insert"}
    /\ LET q == args[r].req
       IN  CASE pc[r] = "create_user_service" ->
                  LET v == UserRequest_validate(q)
                  IN  /\ IF v = "panic" THEN Panicked(r) /\ UNCHANGED locals
                         ELSE IF v = "ValidationError"
                         THEN Returned(r, Err("ValidationError")) /\ UNCHANGED locals
                         ELSE IF find_user_by_email(q.email, users).ok
                         THEN Returned(r, Err("Conflict")) /\ UNCHANGED locals
                         ELSE Awaiting(r, "create_hash", NoLocals)
                      /\ UNCHANGED users
            [] pc[r] = "create_hash" ->
                  /\ \E salt \in Salts, id \in FreshIds :
                        Awaiting(r, "create_insert",
                                 [id |-> id, name |-> q.name, email |-> q.email,
                                  password_hash |-> hash_password(q.password, salt).val,
                                  age |-> q.age, role |-> "User", created_at |-> now,
                                  updated_at |-> now, is_active |-> TRUE])
                  /\ UNCHANGED users
            [] pc[r] = "create_insert" ->
                  LET done == create_user(locals[r], users)
                  IN  /\ users' = done.table
                      /\ Returned(r, done.res)
                      /\ UNCHANGED locals
    /\ UNCHANGED <<now, env, jwtCrate, DECODING_KEY, JWT_VALIDATION, held, active,
                   req, token, claims, user_id, extensions, response, invoked, observed,
                   trace, log, args, inits>>

\* login_service applied to the arguments of slot r
LoginService(r) ==
    /\ r \in active
    /\ pc[r] = "login_service"
    /\ Returned(r, login_service(args[r].req, users, env, now))
    /\ UNCHANGED <<now, env, jwtCrate, DECODING_KEY, JWT_VALIDATION, users, held, active,
                   req, token, claims, user_id, extensions, response, invoked, observed,
                   trace, log, args, inits, locals>>

\* One step of update_user_service: validation, find_user_by_id and the
\* binding of Utc::now(), then the UPDATE.
update_user_service(r) ==
    /\ r \in active
    /\ pc[r] \in {"update_user_service", "update_write"}
    /\ LET q == args[r].req
           id == args[r].user_id
       IN  IF pc[r] = "update_user_service"
           THEN IF UpdateUserRequest_validate(q) = "ValidationError"
                THEN Returned(r, Err("ValidationError")) /\ UNCHANGED <<users, locals>>
                ELSE IF ~find_user_by_id(id, users).ok
                THEN Returned(r, Err("NotFound")) /\ UNCHANGED <<users, locals>>
                ELSE Awaiting(r, "update_write", [updated_at |-> now]) /\ UNCHANGED users
           ELSE LET found == find_user_by_id(id, users)
                IN  IF ~found.ok
                    THEN Returned(r, Err("NotFound")) /\ UNCHANGED <<users, locals>>
                    ELSE LET row == update_user_row(found.val, q, locals[r].updated_at)
                         IN  /\ users' = Replaced(users, id, row)
                             /\ Returned(r, Ok(row))
                             /\ UNCHANGED locals
    /\ UNCHANGED <<now, env, jwtCrate, DECODING_KEY, JWT_VALIDATION, held, active,
                   req, token, claims, user_id, extensions, response, invoked, observed,
                   trace, log, args, inits>>


\* One step of change_password_service: find_user_by_id, verify_password of
\* the current password, hash_password of the new one (Internal when the
\* hashing or its blocking task fails) and the binding of Utc::now(), then
\* the UPDATE of update_user_password.
change_password_service(r) ==
    /\ r \in active
    /\ pc[r] \in {"change_password_service", "change_write"}
    /\ LET id == args[r].user_id
           found == find_user_by_id(id, users)
       IN  IF pc[r] = "change_password_service"
           THEN /\ IF ~found.ok THEN Returned(r, Err("NotFound")) /\ UNCHANGED locals
                   ELSE LET v == verify_password(args[r].current_password,
                                                 found.val.password_hash)
                        IN  IF ~v.ok THEN Returned(r, Err(v.err)) /\ UNCHANGED locals
                            ELSE IF ~v.val
                            THEN Returned(r, Err("Forbidden")) /\ UNCHANGED locals
                            ELSE \/ \E salt \in Salts :
                                       Awaiting(r, "change_write",
                                                [password_hash |->
                                                     hash_password(args[r].new_password, salt).val,
                                                 updated_at |-> now])
                                 \* the blocking task of hash_password fails
                                 \/ Returned(r, Err("Internal")) /\ UNCHANGED locals
                /\ UNCHANGED users
           ELSE IF ~found.ok
                THEN Returned(r, Err("NotFound")) /\ UNCHANGED <<users, locals>>
                ELSE /\ users' = Replaced(users, id,
                                          update_user_password_row(found.val,
                                                                   locals[r].password_hash,
                                                                   locals[r].updated_at))
                     /\ Returned(r, Ok(None))
                     /\ UNCHANGED locals
    /\ UNCHANGED <<now, env, jwtCrate, DECODING_KEY, JWT_VALIDATION, held, active,
                   req, token, claims, user_id, extensions, response, invoked, observed,
                   trace, log, args, inits>>

\* hash_password of one password, then verify_password of another against
\* the hash.
HashVerify(r) ==
    /\ r \in active
    /\ pc[r] \in {"hash_verify", "verify"}
    /\ IF pc[r] = "hash_verify"
       THEN \E salt \in Salts :
               Awaiting(r, "verify", [hash |-> hash_password(args[r].other, salt).val])
       ELSE Returned(r, verify_password(args[r].password, locals[r].hash)) /\ UNCHANGED locals
    /\ UNCHANGED <<now, env, jwtCrate, DECODING_KEY, JWT_VALIDATION, users, held, active,
                   req, token, claims, user_id, extensions, response, invoked, observed,
                   trace, log, args, inits>>

\* verify_password applied to a password and a stored string
VerifyPassword(r) ==
    /\ r \in active
    /\ pc[r] = "verify_password"
    /\ Returned(r, verify_password(args[r].password, args[r].hash))
    /\ UNCHANGED <<now, env, jwtCrate, DECODING_KEY, JWT_VALIDATION, users, held, active,
                   req, token, claims, user_id, extensions, response, invoked, observed,
                   trace, log, args, inits, locals>>

\* The services called concurrently on the users table.
ServiceInit ==
    /\ now = 0
    /\ env \in {e \in Environments : e.JWT_ISSUER = None /\ e.JWT_AUDIENCE = None}
    /\ jwtCrate = [missing |-> "skip"]
    /\ DECODING_KEY = None
    /\ JWT_VALIDATION = None
    /\ users = InitialUsers
    /\ held = None
    /\ active = ServiceSlots
    /\ inits = [key |-> 0, validation |-> 0]
    /\ ret = [r \in Reqs |-> None]
    /\ locals = [r \in Reqs |-> NoLocals]
    /\ InitSlots

ServiceNext ==
    \/ ServiceTick
    \/ \E r \in Reqs :
          \/ Invoke(r)
          \/ create_user_service(r)
          \/ LoginService(r)
          \/ update_user_service(r)
          \/ change_password_service(r)
          \/ HashVerify(r)
          \/ VerifyPassword(r)

ServiceSpec == ServiceInit /\ [][ServiceNext]_vars

\* A users table that also holds a row written by another program, whose
\* password_hash is not a PHC string.
LegacyRow ==
    [id |-> 6, name |-> "Legacy User", email |-> "legacy@example.com",
     password_hash |-> MalformedHash, age |-> 50, role |-> "User", created_at |-> 0,
     updated_at |-> 0, is_active |-> TRUE]

StoredHashInit ==
    /\ now = 0
    /\ env \in {e \in Environments : e.JWT_ISSUER = None /\ e.JWT_AUDIENCE = None}
    /\ jwtCrate = [missing |-> "skip"]
    /\ DECODING_KEY = None
    /\ JWT_VALIDATION = None
    /\ users = InitialUsers \cup {LegacyRow}
    /\ held = None
    /\ active = ServiceSlots
    /\ inits = [key |-> 0, validation |-> 0]
    /\ ret = [r \in Reqs |-> None]
    /\ locals = [r \in Reqs |-> NoLocals]
    /\ InitSlots

StoredHashSpec == StoredHashInit /\ [][ServiceNext]_vars

\* ------------------------------------------------- repository look-ups
\* The sqlx::Error values a SELECT through the pool can end with, besides
\* RowNotFound: no connection in time, a broken connection, an error
\* reported by the database (with the name of a constraint or without), a
\* row that does not decode into User.
QueryFaults ==
    {[kind |-> "PoolTimedOut", constraint |-> None],
     [kind |-> "Io", constraint |-> None],
     [kind |-> "Database", constraint |-> None],
     [kind |-> "Database", constraint |-> Some([name |-> "users_email_key", email |-> TRUE])],
     [kind |-> "Database", constraint |-> Some([name |-> "users_age_check", email |-> FALSE])],
     [kind |-> "ColumnDecode", constraint |-> None]}
RowNotFound == [kind |-> "RowNotFound", constraint |-> None]

\* impl From<sqlx::Error> for AppError: RowNotFound is NotFound, a database
\* error of a constraint whose name contains "email" is Conflict, every
\* other error is Database.
From_sqlx_Error(err) ==
    IF err.kind = "RowNotFound" THEN "NotFound"
    ELSE IF err.kind = "Database" /\ IsSome(err.constraint)
    THEN IF Unwrap(err.constraint).email THEN "Conflict" ELSE "Database"
    ELSE "Database"

\* The closure given to map_err by find_user_by_email and find_user_by_id
find_user_map_err(err) ==
    IF err = RowNotFound THEN "NotFound" ELSE From_sqlx_Error(err)

RepositoryCalls ==
    {[op |-> "find_user_by_email", email |-> e] :
        e \in {"user@example.com", "admin@example.com", "gone@example.com",
               "nobody@example.com"}}
    \cup {[op |-> "find_user_by_id", id |-> i] : i \in {1, 2, 3, MissingId}}

\* A caller applies a look-up of the repository to a key.
RepositoryInvoke(r) ==
    /\ r \in active
    /\ pc[r] = "idle"
    /\ \E c \in RepositoryCalls :
          /\ args' = [args EXCEPT ![r] = c]
          /\ pc' = [pc EXCEPT ![r] = c.op]
    /\ UNCHANGED <<now, env, jwtCrate, DECODING_KEY, JWT_VALIDATION, users, held, active,
                   req, token, claims, user_id, extensions, response, invoked, observed,
                   trace, log, inits, ret, locals>>

\* repositories::user::find_user_by_email: the query fails with an error of
\* sqlx, or it is answered from the table.
FindUserByEmail(r) ==
    /\ r \in active
    /\ pc[r] = "find_user_by_email"
    /\ \/ \E fault \in QueryFaults : Returned(r, Err(find_user_map_err(fault)))
       \/ LET found == find_user_by_email(args[r].email, users)
          IN  Returned(r, IF found.ok THEN Ok(Unwrap(found.user)) ELSE Err(found.err))
    /\ UNCHANGED <<now, env, jwtCrate, DECODING_KEY, JWT_VALIDATION, users, held, active,
                   req, token, claims, user_id, extensions, response, invoked, observed,
                   trace, log, args, inits, locals>>

\* repositories::user::find_user_by_id, likewise
FindUserById(r) ==
    /\ r \in active
    /\ pc[r] = "find_user_by_id"
    /\ \/ \E fault \in QueryFaults : Returned(r, Err(find_user_map_err(fault)))
       \/ Returned(r, find_user_by_id(args[r].id, users))
    /\ UNCHANGED <<now, env, jwtCrate, DECODING_KEY, JWT_VALIDATION, users, held, active,
                   req, token, claims, user_id, extensions, response, invoked, observed,
                   trace, log, args, inits, locals>>

RepositoryNext ==
    \E r \in Reqs :
        \/ RepositoryInvoke(r)
        \/ FindUserByEmail(r)
        \/ FindUserById(r)

RepositorySpec == ServiceInit /\ [][RepositoryNext]_vars

\* ------------------------------------------------------------ the routes
\* A match whose legacy arm for PATCH /api/users/me calls update_user itself,
\* as the two legacy arms before it call their handlers.
Route_legacy_open(method, path) ==
    IF method = "POST" /\ path = "/api/v1/users" THEN [handler |-> "create_user", gated |-> FALSE]
    ELSE IF method = "POST" /\ path = "/api/v1/login" THEN [handler |-> "login", gated |-> FALSE]
    ELSE IF method = "PATCH" /\ path = "/api/v1/users/me"
    THEN [handler |-> "update_user", gated |-> TRUE]
    ELSE IF method = "POST" /\ path = "/api/v1/users/me/change-password"
    THEN [handler |-> "change_password", gated |-> TRUE]
    ELSE IF method = "GET" /\ path = "/health" THEN [handler |-> "health", gated |-> FALSE]
    ELSE IF method = "GET" /\ path = "/metrics" THEN [handler |-> "metrics", gated |-> FALSE]
    ELSE IF method = "OPTIONS" THEN [handler |-> "options", gated |-> FALSE]
    ELSE IF method = "POST" /\ path = "/api/users" THEN [handler |-> "create_user", gated |-> FALSE]
    ELSE IF method = "POST" /\ path = "/api/login" THEN [handler |-> "login", gated |-> FALSE]
    ELSE IF method = "PATCH" /\ path = "/api/users/me"
    THEN [handler |-> "update_user", gated |-> FALSE]
    ELSE [handler |-> "not_found", gated |-> FALSE]

\* handle_request, the match on (method, path) of lines 214-298, in the
\* order of its arms: the handler of the request and whether it is wrapped
\* in auth_middleware.
Route(method, path) ==
    IF method = "POST" /\ path = "/api/v1/users" THEN [handler |-> "create_user", gated |-> FALSE]
    ELSE IF method = "POST" /\ path = "/api/v1/login" THEN [handler |-> "login", gated |-> FALSE]
    ELSE IF method = "PATCH" /\ path = "/api/v1/users/me"
    THEN [handler |-> "update_user", gated |-> TRUE]
    ELSE IF method = "POST" /\ path = "/api/v1/users/me/change-password"
    THEN [handler |-> "change_password", gated |-> TRUE]
    ELSE IF method = "GET" /\ path = "/health" THEN [handler |-> "health", gated |-> FALSE]
    ELSE IF method = "GET" /\ path = "/metrics" THEN [handler |-> "metrics", gated |-> FALSE]
    ELSE IF method = "OPTIONS" THEN [handler |-> "options", gated |-> FALSE]
    ELSE IF method = "POST" /\ path = "/api/users" THEN [handler |-> "create_user", gated |-> FALSE]
    ELSE IF method = "POST" /\ path = "/api/login" THEN [handler |-> "login", gated |-> FALSE]
    ELSE IF method = "PATCH" /\ path = "/api/users/me"
    THEN [handler |-> "update_user", gated |-> TRUE]
    ELSE [handler |-> "not_found", gated |-> FALSE]

\* The requests of the clients of the API: every arm of the match and some
\* (method, path) pairs of no arm.
Targets ==
    {<<"POST", "/api/v1/users">>, <<"POST", "/api/v1/login">>,
     <<"PATCH", "/api/v1/users/me">>, <<"POST", "/api/v1/users/me/change-password">>,
     <<"GET", "/health">>, <<"GET", "/metrics">>,
     <<"OPTIONS", "/api/v1/users/me">>, <<"OPTIONS", "/health">>,
     <<"POST", "/api/users">>, <<"POST", "/api/login">>, <<"PATCH", "/api/users/me">>,
     <<"POST", "/api/users/me/change-password">>, <<"GET", "/api/v1/users/me">>,
     <<"DELETE", "/api/v1/users/me">>}

\* The token of an account whose row is not in the table any more.
DepartedToken(e) == generate_token(MissingId, "left@example.com", "User", e, 0)

TargetCarriers(e) ==
    {None} \cup {Bearer(t) : t \in IssuedTokens(e) \cup {Garbage, DepartedToken(e)}}

\* The bodies sent to a handler: none, one that is not JSON of the request
\* type, and JSON of the request type with valid and invalid fields.
TargetBodies(handler) ==
    {NoBody, [kind |-> "garbage", email |-> "", password |-> ""]}
    \cup CASE handler = "create_user" ->
                {[kind |-> "json", name |-> n, email |-> "new@example.com",
                  password |-> "Passw0rd3", age |-> 25] : n \in {"New User", "A"}}
           [] handler = "login" ->
                {[kind |-> "json", email |-> e, password |-> p] :
                    e \in {"user@example.com", "gone@example.com"},
                    p \in {"Passw0rd1", "Passw0rd2"}}
                \cup {[kind |-> "json", email |-> "not-an-email", password |-> "Passw0rd1"]}
           [] handler = "update_user" ->
                {[kind |-> "json", email |-> "", password |-> "Passw0rd1", name |-> n,
                  age |-> a] :
                    n \in {None, Some("New Name")}, a \in {None, Some(31)}}
                \cup {[kind |-> "json", email |-> "", password |-> "", name |-> Some("A"),
                       age |-> None]}
           [] handler = "change_password" ->
                {[kind |-> "json", email |-> "", password |-> "",
                  current_password |-> "Passw0rd1", new_password |-> n,
                  confirm_password |-> "Passw0rd3"] : n \in {"Passw0rd3", "123"}}
           [] OTHER -> {}

TargetRequests(e) ==
    UNION {{Request(Route(t[1], t[2]).handler, a, None, None, b)
               @@ [method |-> t[1], path |-> t[2], oversized |-> FALSE] :
               a \in TargetCarriers(e), b \in TargetBodies(Route(t[1], t[2]).handler)} :
           t \in Targets}
    \cup {Request(Route(t[1], t[2]).handler, None, None, None, NoBody)
            @@ [method |-> t[1], path |-> t[2], oversized |-> TRUE] :
            t \in {<<"POST", "/api/v1/login">>, <<"PATCH", "/api/v1/users/me">>}}

\* handle_request up to the call of the arm: a Content-Length above 10 MB is
\* answered at once; a handler that the arm wraps in auth_middleware is
\* entered through the gate, a handler the arm calls itself is entered
\* directly, the other arms answer in place.
HandleRequest(r) ==
    /\ r \in active
    /\ pc[r] = "idle"
    /\ \E q \in TargetRequests(env) :
          /\ req' = [req EXCEPT ![r] = q]
          /\ pc' = [pc EXCEPT ![r] =
                      IF q.oversized THEN "inline"
                      ELSE IF Route(q.method, q.path).gated THEN "extract"
                      ELSE IF Route(q.method, q.path).handler \in {"create_user", "login"}
                      THEN Route(q.method, q.path).handler
                      ELSE IF Route(q.method, q.path).handler \in ProtectedRoutes
                      THEN "handler"
                      ELSE "inline"]
    /\ UNCHANGED <<now, env, jwtCrate, DECODING_KEY, JWT_VALIDATION, users, held, active,
                   token, claims, user_id, extensions, response, invoked, observed,
                   trace, log, args, inits, ret, locals>>

\* A response built in handle_request itself
plain_response(status, body) ==
    [status |-> status, body |-> body, x_trace_id |-> None, x_request_id |-> None]

\* handle_request, the arms that answer in place: 413, /health, /metrics,
\* OPTIONS, and 404 for every other request.
AnswerInline(r) ==
    /\ r \in active
    /\ pc[r] = "inline"
    /\ LET h == Route(req[r].method, req[r].path).handler
       IN  Done(r, IF req[r].oversized
                   THEN plain_response(413, [error |-> "Payload Too Large", status |-> 413])
                   ELSE CASE h = "health" ->
                               plain_response(200, [status |-> "OK", version |-> "1.0.0",
                                                    uptime |-> now, requests |-> 1])
                          [] h = "metrics" ->
                               plain_response(200, [api_uptime_seconds |-> now,
                                                    api_requests_total |-> 1])
                          [] h = "options" -> plain_response(204, [empty |-> TRUE])
                          [] OTHER ->
                               plain_response(404, [error |-> "Not Found", status |-> 404]))
    /\ Staged(r, "inline")
    /\ UNCHANGED <<now, env, jwtCrate, DECODING_KEY, JWT_VALIDATION, users, held, active,
                   req, token, claims, user_id, extensions, invoked, observed, log,
                   args, inits, ret, locals>>

\* ChangePasswordRequest::validate: every field's validators run, the regex
\* of new_password among them.
ChangePasswordRequest_validate(q) ==
    IF PASSWORD_REGEX = "panic" THEN "panic"
    ELSE IF \/ q.current_password = ""
            \/ q.new_password \in WeakPasswords
            \/ q.confirm_password # q.new_password
         THEN "ValidationError"
         ELSE "ok"

\* controllers::user::create_user: parse the body, validate (the validation
\* panics in the initialiser of PASSWORD_REGEX), create_user_service, answer
\* 201 with the UserResponse or with the error's response.
CreateUser(r) ==
    /\ r \in active
    /\ pc[r] = "create_user"
    /\ Staged(r, "create_user")
    /\ LET q == req[r].body
           rid == request_id_of(req[r])
       IN  IF q.kind # "json"
           THEN Done(r, into_response("BadRequest", "bad body", None)) /\ UNCHANGED users
           ELSE IF UserRequest_validate(q) = "panic"
           THEN pc' = [pc EXCEPT ![r] = "panicked"] /\ UNCHANGED <<users, response>>
           ELSE IF UserRequest_validate(q) = "ValidationError"
           THEN Done(r, into_response("ValidationError", "field errors", rid))
                /\ UNCHANGED users
           ELSE IF find_user_by_email(q.email, users).ok
           THEN Done(r, into_response("Conflict", q.email, rid)) /\ UNCHANGED users
           ELSE \E salt \in Salts, id \in FreshIds :
                   LET row == [id |-> id, name |-> q.name, email |-> q.email,
                               password_hash |-> hash_password(q.password, salt).val,
                               age |-> q.age, role |-> "User", created_at |-> now,
                               updated_at |-> now, is_active |-> TRUE]
                       made == create_user(row, users)
                   IN  /\ users' = made.table
                       /\ Done(r, IF made.res.ok
                                  THEN json_response(UserResponse(row), 201, rid)
                                  ELSE into_response(made.res.err, q.email, rid))
    /\ UNCHANGED <<now, env, jwtCrate, DECODING_KEY, JWT_VALIDATION, held, active,
                   req, token, claims, user_id, extensions, invoked, observed, log,
                   args, inits, ret, locals>>

\* controllers::user::update_user: the user id of the extensions, the body,
\* at least one field, validate, update_user_service, answer 200 with the
\* UserResponse of the updated row or with the error's response.
UpdateUser(r) ==
    /\ r \in active
    /\ pc[r] = "handler"
    /\ req[r].route = "update_user"
    /\ LET q == req[r].body
           rid == request_id_of(req[r])
       IN  IF ~IsSome(extensions[r].user_id)
           THEN Done(r, into_response("Unauthorized", "", None)) /\ UNCHANGED users
           ELSE IF q.kind # "json"
           THEN Done(r, into_response("BadRequest", "bad body", None)) /\ UNCHANGED users
           ELSE IF q.name = None /\ q.age = None
           THEN Done(r, into_response("BadRequest", "no field to update", rid))
                /\ UNCHANGED users
           ELSE IF UpdateUserRequest_validate(q) = "ValidationError"
           THEN Done(r, into_response("ValidationError", "field errors", rid))
                /\ UNCHANGED users
           ELSE LET found == find_user_by_id(Unwrap(extensions[r].user_id), users)
                IN  IF ~found.ok
                    THEN Done(r, into_response("NotFound", "user id", rid)) /\ UNCHANGED users
                    ELSE LET row == update_user_row(found.val, q, now)
                         IN  /\ users' = Replaced(users, found.val.id, row)
                             /\ Done(r, json_response(UserResponse(row), 200, rid))
    /\ UNCHANGED <<now, env, jwtCrate, DECODING_KEY, JWT_VALIDATION, held, active,
                   req, token, claims, user_id, extensions, invoked, observed, trace, log,
                   args, inits, ret, locals>>

\* controllers::user::change_password: the user id of the extensions, the
\* body, validate (the validation panics in the initialiser of
\* PASSWORD_REGEX), change_password_service, answer 200 or the error's
\* response.
ChangePassword(r) ==
    /\ r \in active
    /\ pc[r] = "handler"
    /\ req[r].route = "change_password"
    /\ LET q == req[r].body
           rid == request_id_of(req[r])
       IN  IF ~IsSome(extensions[r].user_id)
           THEN Done(r, into_response("Unauthorized", "", None)) /\ UNCHANGED users
           ELSE IF q.kind # "json"
           THEN Done(r, into_response("BadRequest", "bad body", None)) /\ UNCHANGED users
           ELSE IF ChangePasswordRequest_validate(q) = "panic"
           THEN pc' = [pc EXCEPT ![r] = "panicked"] /\ UNCHANGED <<users, response>>
           ELSE IF ChangePasswordRequest_validate(q) = "ValidationError"
           THEN Done(r, into_response("ValidationError", "field errors", rid))
                /\ UNCHANGED users
           ELSE LET found == find_user_by_id(Unwrap(extensions[r].user_id), users)
                IN  IF ~found.ok
                    THEN Done(r, into_response("NotFound", "user id", rid)) /\ UNCHANGED users
                    ELSE LET v == verify_password(q.current_password,
                                                  found.val.password_hash)
                         IN  IF ~v.ok
                             THEN Done(r, into_response(v.err, "hash", rid))
                                  /\ UNCHANGED users
                             ELSE IF ~v.val
                             THEN Done(r, into_response("Forbidden",
                                                        "current password is wrong", rid))
                                  /\ UNCHANGED users
                             ELSE \E salt \in Salts :
                                     /\ users' = Replaced(users, found.val.id,
                                           update_user_password_row(found.val,
                                               hash_password(q.new_password, salt).val, now))
                                     /\ Done(r, json_response(
                                                   [success |-> TRUE,
                                                    message |-> "password changed"],
                                                   200, rid))
    /\ UNCHANGED <<now, env, jwtCrate, DECODING_KEY, JWT_VALIDATION, held, active,
                   req, token, claims, user_id, extensions, invoked, observed, trace, log,
                   args, inits, ret, locals>>

\* The task of a request whose handler panicked is gone; the connection is
\* closed and its slot serves the next connection.
Reap(r) ==
    /\ r \in active
    /\ pc[r] = "panicked"
    /\ req' = [req EXCEPT ![r] = IdleRequest]
    /\ pc' = [pc EXCEPT ![r] = "idle"]
    /\ token' = [token EXCEPT ![r] = None]
    /\ claims' = [claims EXCEPT ![r] = NoClaims]
    /\ user_id' = [user_id EXCEPT ![r] = None]
    /\ extensions' = [extensions EXCEPT ![r] = NoExtensions]
    /\ invoked' = [invoked EXCEPT ![r] = 0]
    /\ observed' = [observed EXCEPT ![r] = NotObserved]
    /\ trace' = [trace EXCEPT ![r] = <<>>]
    /\ log' = [log EXCEPT ![r] = <<>>]
    /\ UNCHANGED <<now, env, jwtCrate, DECODING_KEY, JWT_VALIDATION, users, held, active,
                   response, args, inits, ret, locals>>

\* One connection at a time is served.
ApiInit ==
    /\ now = 0
    /\ env \in {e \in Environments : e.JWT_ISSUER = None /\ e.JWT_AUDIENCE = None}
    /\ jwtCrate = [missing |-> "skip"]
    /\ DECODING_KEY = None
    /\ JWT_VALIDATION = None
    /\ users = InitialUsers
    /\ held = None
    /\ active = {1}
    /\ inits = [key |-> 0, validation |-> 0]
    /\ ret = [r \in Reqs |-> None]
    /\ locals = [r \in Reqs |-> NoLocals]
    /\ InitSlots

ApiNext ==
    \E r \in Reqs :
        \/ HandleRequest(r)
        \/ AnswerInline(r)
        \/ CreateUser(r)
        \/ Login(r)
        \/ ExtractToken(r)
        \/ DecodeToken(r)
        \/ CheckExpiry(r)
        \/ ParseSubject(r)
        \/ BindIdentity(r)
        \/ CallHandler(r)
        \/ UpdateUser(r)
        \/ ChangePassword(r)
        \/ Finish(r)
        \/ Reap(r)

ApiSpec == ApiInit /\ [][ApiNext]_vars

\* ------------------------------------------------------------------ claims
Protected(r) == req[r].route \in {"update_user", "change_password"}
Ended(r) == pc[r] = "done"
\* The error label of a response body, "" for a body that is not an error.
ErrorOf(resp) == IF "error" \in DOMAIN resp.body THEN resp.body.error ELSE ""
Rejected(r, label) ==
    /\ response[r].status = 401
    /\ ErrorOf(response[r]) = label
    /\ invoked[r] = 0
\* The signature segment of a three-segment token is the tag of its first
\* two segments under key.
SignatureVerifies(tok, key) == Len(tok) = 3 /\ tok[3] = [mac |-> <<key, <<tok[1], tok[2]>>>>]
IsUuidText(s) == s[1] \in {"hyphenated", "simple", "urn", "braced"}

\* C1: the downstream handler is invoked only if a token was extracted, it
\* decoded and validated (well-formed, signature verifies under the secret,
\* not expired when checked) and its sub parsed as a UUID; a request that
\* ends without the handler having been invoked is answered 401.
C1_HandlerOnlyWhenAuthenticated ==
    \A r \in Reqs : Protected(r) =>
        /\ invoked[r] > 0 =>
              /\ IsSome(token[r])
              /\ SignatureVerifies(Unwrap(token[r]), env.JWT_SECRET)
              /\ IsSome(claims[r])
              /\ IsSome(observed[r].expiry)
              /\ Unwrap(claims[r]).exp >= Unwrap(observed[r].expiry)
              /\ IsUuidText(Unwrap(claims[r]).sub)
              /\ extensions[r].user_id = Some(Unwrap(claims[r]).sub[2])
        /\ (Ended(r) /\ invoked[r] = 0) => response[r].status = 401

\* C1 witness: a request went through the gate and its handler answered.
C1_Witness ==
    \E r \in Reqs : Protected(r) /\ Ended(r) /\ invoked[r] = 1 /\ response[r].status = 200

GateStages == <<"extract", "decode", "expiry", "subject", "bind", "handler">>
IsPrefix(s, t) == Len(s) <= Len(t) /\ \A i \in 1..Len(s) : s[i] = t[i]

\* The stages of a request are an initial part of extract, validate (decode,
\* expiry, subject), bind, handler; an ended request has exactly one of the
\* three outcomes.
StagesInOrder ==
    \A r \in Reqs : Protected(r) =>
        /\ IsPrefix(trace[r], GateStages)
        /\ invoked[r] <= 1
        /\ Ended(r) =>
              \/ Rejected(r, "Unauthorized") /\ trace[r] = <<"extract">>
              \/ Rejected(r, "InvalidToken") /\ Len(trace[r]) \in 2..4
              \/ /\ trace[r] = GateStages
                 /\ invoked[r] = 1
                 /\ response[r].status = 200

\* C2: every request entering the gate reaches exactly one terminal outcome
\* (Unauthorized, InvalidToken, or Authenticated with the handler invoked
\* exactly once), and its stages occur in the order extract, validate, bind
\* identity, invoke handler, none skipped or repeated.
C2_OneOutcomeStagesInOrder ==
    /\ []StagesInOrder
    /\ \A r \in Reqs : (pc[r] = "extract") ~> (pc[r] = "done")

\* C2 witness: an authenticated request that went through every stage.
C2_Witness ==
    \E r \in Reqs : Ended(r) /\ trace[r] = GateStages /\ invoked[r] = 1

\* The request carries no token: no Authorization header with the Bearer
\* scheme, no X-User-Access-Token header, no auth_token cookie.
NoTokenOnAnyCarrier(q) ==
    /\ \/ q.authorization = None
       \/ Unwrap(q.authorization).ascii /\ Unwrap(q.authorization).prefix # "Bearer "
    /\ q.x_user_access_token = None
    /\ \/ q.cookie = None
       \/ /\ Unwrap(q.cookie).ascii
          /\ \A i \in 1..Len(Unwrap(q.cookie).cookies) :
                Unwrap(q.cookie).cookies[i].name # "auth_token"

\* C3: a request with no token on any carrier, routed through the gate, is
\* answered 401 with error = "Unauthorized".
C3_NoTokenUnauthorized ==
    \A r \in Reqs : (Protected(r) /\ Ended(r) /\ NoTokenOnAnyCarrier(req[r])) =>
        Rejected(r, "Unauthorized")

\* C3 witness: such a request, carrying a Basic Authorization header, ended.
C3_Witness ==
    \E r \in Reqs :
        /\ Protected(r) /\ Ended(r) /\ NoTokenOnAnyCarrier(req[r])
        /\ req[r].authorization # None

HasBearer(q) ==
    /\ q.authorization # None
    /\ Unwrap(q.authorization).ascii
    /\ Unwrap(q.authorization).prefix = "Bearer "
HasLegacy(q) == q.x_user_access_token # None /\ Unwrap(q.x_user_access_token).ascii
HasAuthCookie(q) ==
    /\ q.cookie # None
    /\ Unwrap(q.cookie).ascii
    /\ \E i \in 1..Len(Unwrap(q.cookie).cookies) : Unwrap(q.cookie).cookies[i].name = "auth_token"
\* t is the value of the first auth_token cookie
IsFirstAuthCookie(q, t) ==
    \E i \in 1..Len(Unwrap(q.cookie).cookies) :
        /\ Unwrap(q.cookie).cookies[i] = [name |-> "auth_token", value |-> t]
        /\ \A j \in 1..(i - 1) : Unwrap(q.cookie).cookies[j].name # "auth_token"

\* C4: extract_token resolves the token by fixed priority: the Bearer token
\* if present, else the X-User-Access-Token value, else the auth_token
\* cookie value, else none; with a Bearer token X and a legacy header Y the
\* result is X.
C4_ExtractPriority ==
    \A r \in Reqs : (Protected(r) /\ pc[r] # "extract") =>
        LET q == req[r] IN
        /\ HasBearer(q) => token[r] = Some(Unwrap(q.authorization).rest)
        /\ (~HasBearer(q) /\ HasLegacy(q)) =>
              token[r] = Some(Unwrap(q.x_user_access_token).value)
        /\ (~HasBearer(q) /\ ~HasLegacy(q) /\ HasAuthCookie(q)) =>
              /\ IsSome(token[r])
              /\ IsFirstAuthCookie(q, Unwrap(token[r]))
        /\ (~HasBearer(q) /\ ~HasLegacy(q) /\ ~HasAuthCookie(q)) => token[r] = None

\* C4 witness: a Bearer token X and a different legacy token Y, X resolved.
C4_Witness ==
    \E r \in Reqs :
        /\ Protected(r) /\ pc[r] = "decode"
        /\ HasBearer(req[r]) /\ HasLegacy(req[r])
        /\ Unwrap(req[r].authorization).rest # Unwrap(req[r].x_user_access_token).value
        /\ token[r] = Some(Unwrap(req[r].authorization).rest)

\* The identity of the user the payload of a login token names.
IdentityOf(tok) == [user_id |-> Some(tok[2].b64.sub[2]), role |-> Some(tok[2].b64.role)]

C6_TamperedSignatureRejected ==
    \A r \in Reqs :
        (/\ Protected(r) /\ Ended(r) /\ IsSome(token[r])
         /\ Len(Unwrap(token[r])) = 3
         /\ ~SignatureVerifies(Unwrap(token[r]), env.JWT_SECRET)) =>
            Rejected(r, "InvalidToken")

\* C6 witness: the client's own unexpired token with its signature segment
\* replaced was presented and the request ended.
C6_Witness ==
    \E r \in Reqs :
        /\ Protected(r) /\ Ended(r)
        /\ IsSome(held) /\ IsSome(token[r])
        /\ Unwrap(token[r])[1] = Unwrap(held)[1]
        /\ Unwrap(token[r])[2] = Unwrap(held)[2]
        /\ Unwrap(token[r])[3] # Unwrap(held)[3]
        /\ now < Unwrap(held)[2].b64.exp
        /\ log[r] = <<"warn: invalid signature">>

\* tok is a correctly signed token with a decodable payload
CorrectlySigned(tok, key) == SignatureVerifies(tok, key) /\ "b64" \in DOMAIN tok[2]

\* C7: a correctly signed token presented when now > exp + 60 is rejected
\* with 401 InvalidToken.
C7_ExpiredBeyondLeewayRejected ==
    \A r \in Reqs :
        (/\ Protected(r) /\ Ended(r) /\ IsSome(token[r])
         /\ CorrectlySigned(Unwrap(token[r]), env.JWT_SECRET)
         /\ IsSome(observed[r].decode)
         /\ Unwrap(observed[r].decode) > Unwrap(token[r])[2].b64.exp + LEEWAY) =>
            Rejected(r, "InvalidToken")

\* C7 witness: a login token was decoded more than 60 s after its exp.
C7_Witness ==
    \E r \in Reqs :
        /\ Protected(r) /\ Ended(r) /\ IsSome(held) /\ token[r] = held
        /\ IsSome(observed[r].decode)
        /\ Unwrap(observed[r].decode) > Unwrap(held)[2].b64.exp + LEEWAY
        /\ log[r] = <<"info: expired token">>

\* C8: the expiry check of the gate applies the leeway of 60 s: a correctly
\* signed token (one that decode accepted, with a UUID subject) whose expiry
\* is checked at a time now with exp < now <= exp + 60 is accepted and the
\* handler is invoked.
C8_LeewayApplied ==
    \A r \in Reqs :
        (/\ Protected(r) /\ Ended(r)
         /\ IsSome(token[r]) /\ CorrectlySigned(Unwrap(token[r]), env.JWT_SECRET)
         /\ IsSome(claims[r]) /\ IsUuidText(Unwrap(claims[r]).sub)
         /\ IsSome(observed[r].expiry)
         /\ Unwrap(claims[r]).exp < Unwrap(observed[r].expiry)
         /\ Unwrap(observed[r].expiry) <= Unwrap(claims[r]).exp + LEEWAY) =>
            invoked[r] = 1

\* wrong number of segments, or a header or payload that is not base64url
Malformed(tok) ==
    \/ Len(tok) # 3
    \/ "b64" \notin DOMAIN tok[1]
    \/ "b64" \notin DOMAIN tok[2]

\* C9: a structurally malformed token (wrong number of segments or an
\* undecodable payload), on whichever carrier it was found, is rejected with
\* 401 InvalidToken.
C9_MalformedRejected ==
    \A r \in Reqs :
        (Protected(r) /\ Ended(r) /\ IsSome(token[r]) /\ Malformed(Unwrap(token[r]))) =>
            Rejected(r, "InvalidToken")

\* C9 witness: the string invalid_token, found in the auth_token cookie.
C9_Witness ==
    \E r \in Reqs :
        /\ Protected(r) /\ Ended(r)
        /\ req[r].authorization = None /\ req[r].x_user_access_token = None
        /\ token[r] = Some(<<[raw |-> "invalid_token"]>>)

\* C10: a correctly signed, unexpired token whose sub does not parse as a
\* UUID is rejected with 401 InvalidToken; no identity is bound and the
\* handler is not invoked.
C10_BadSubjectRejected ==
    \A r \in Reqs :
        (/\ Protected(r) /\ Ended(r) /\ IsSome(token[r])
         /\ CorrectlySigned(Unwrap(token[r]), env.JWT_SECRET)
         /\ now <= Unwrap(token[r])[2].b64.exp
         /\ ~IsUuidText(Unwrap(token[r])[2].b64.sub)) =>
            /\ Rejected(r, "InvalidToken")
            /\ extensions[r] = [user_id |-> None, role |-> None]
            /\ user_id[r] = None

\* C10 witness: such a token passed decode and the expiry check and was
\* refused at the parsing of its subject.
C10_Witness ==
    \E r \in Reqs :
        /\ Protected(r) /\ Ended(r)
        /\ trace[r] = <<"extract", "decode", "expiry", "subject">>
        /\ log[r] = <<"warn: bad uuid">>

\* The role gate has decided for request r.
RoleDecided(r) ==
    /\ "required_role" \in DOMAIN args[r]
    /\ pc[r] \in {"handler", "done"}
    /\ IsSome(extensions[r].role)
RoleAllowed(r) == invoked[r] = 1 /\ (Ended(r) => response[r].status # 403)
RoleForbidden(r) ==
    /\ invoked[r] = 0
    /\ Ended(r)
    /\ response[r].status = 403
    /\ ErrorOf(response[r]) = "Forbidden"

\* C11: the decision of role_middleware is total and equals the reference
\* rule for every pair (identity role, required role): allowed iff the
\* identity role equals the required role or is Admin, Forbidden otherwise.
C11_RoleDecisionIsReferenceRule ==
    \A r \in Reqs : RoleDecided(r) =>
        LET role == Unwrap(extensions[r].role)
            required == args[r].required_role
        IN  /\ RoleAllowed(r) \/ RoleForbidden(r)
            /\ ~(RoleAllowed(r) /\ RoleForbidden(r))
            /\ RoleAllowed(r) <=> (role = required \/ role = "Admin")

\* C11 witness: a User identity was refused where Moderator is required.
C11_Witness ==
    \E r \in Reqs :
        /\ RoleDecided(r) /\ RoleForbidden(r)
        /\ extensions[r].role = Some("User")
        /\ args[r].required_role = "Moderator"

\* C12: a higher capability level satisfies a lower-level requirement: an
\* identity with role Moderator is allowed when the required role is User.
C12_HigherLevelSatisfiesLower ==
    \A r \in Reqs :
        (/\ RoleDecided(r)
         /\ extensions[r].role = Some("Moderator")
         /\ args[r].required_role = "User") => RoleAllowed(r)

\* C12 as amended: capability levels are not ordered: only Admin satisfies a
\* requirement other than its own; an identity with role Moderator is
\* Forbidden when the required role is User, and allowed when it is
\* Moderator.
C12_OnlyAdminSatisfiesOtherLevels ==
    \A r \in Reqs :
        (RoleDecided(r) /\ extensions[r].role = Some("Moderator")) =>
            /\ args[r].required_role = "User" => RoleForbidden(r)
            /\ args[r].required_role = "Admin" => RoleForbidden(r)
            /\ args[r].required_role = "Moderator" => RoleAllowed(r)

\* C12 witness: a Moderator identity was refused where User is required.
C12_Witness ==
    \E r \in Reqs :
        /\ RoleDecided(r) /\ RoleForbidden(r)
        /\ extensions[r].role = Some("Moderator")
        /\ args[r].required_role = "User"

\* Each initialiser has run at most once, a set cell has been initialised
\* exactly once, and what a request observed is what the cell holds.
OnceInitialised ==
    /\ inits.key <= 1 /\ inits.validation <= 1
    /\ IsSome(DECODING_KEY) <=> inits.key = 1
    /\ IsSome(JWT_VALIDATION) <=> inits.validation = 1
    /\ \A r \in Reqs :
          /\ IsSome(observed[r].key) => observed[r].key = DECODING_KEY
          /\ IsSome(observed[r].validation) => observed[r].validation = JWT_VALIDATION
    /\ \A r, s \in Reqs :
          (IsSome(observed[r].key) /\ IsSome(observed[s].key)) =>
              /\ observed[r].key = observed[s].key
              /\ observed[r].validation = observed[s].validation

\* A set cell keeps its value.
CellsImmutable ==
    /\ IsSome(DECODING_KEY) => DECODING_KEY' = DECODING_KEY
    /\ IsSome(JWT_VALIDATION) => JWT_VALIDATION' = JWT_VALIDATION

\* C13: initialisation of the signing configuration is exactly-once under
\* concurrent first access: each initialiser (decoding key, validation
\* policy) runs exactly once, every request observes the identical key and
\* policy, and neither changes afterwards.
C13_ExactlyOnceInitialisation == []OnceInitialised /\ [][CellsImmutable]_vars

\* C13 witness: two requests raced on first use, both decoded with the same
\* key and policy, and the environment has changed since the initialisation.
C13_Witness ==
    \E r, s \in Reqs :
        /\ r # s
        /\ IsSome(observed[r].key) /\ IsSome(observed[s].key)
        /\ inits = [key |-> 1, validation |-> 1]
        /\ env.JWT_SECRET # Unwrap(DECODING_KEY)
        /\ env.JWT_ISSUER # Unwrap(JWT_VALIDATION).iss

\* C14: every token issued by generate_token is signed with the secret of
\* the active, once-initialised signing configuration (the secret the gate
\* validates with), also after JWT_SECRET changed in the environment.
C14_IssuedWithActiveSecret ==
    (IsSome(held) /\ IsSome(DECODING_KEY)) =>
        SignatureVerifies(Unwrap(held), Unwrap(DECODING_KEY))

\* The error of slot r has been rendered.
Rendered(r) == "kind" \in DOMAIN args[r] /\ Ended(r)

\* The HTTP status of each kind of the taxonomy.
TaxonomyStatus(kind) ==
    CASE kind \in {"Unauthorized", "InvalidToken"} -> 401
      [] kind = "Forbidden" -> 403
      [] kind = "NotFound" -> 404
      [] kind \in {"BadRequest", "ValidationError"} -> 400
      [] kind = "Conflict" -> 409
      [] kind = "RateLimited" -> 429
      [] kind \in {"Internal", "Database"} -> 500
      [] kind = "ServiceUnavailable" -> 503

\* C15: each error kind renders with its fixed HTTP status for every value
\* of its payload, and the status field of the body equals the HTTP status
\* of the response.
C15_FixedStatusPerKind ==
    \A r \in Reqs : Rendered(r) =>
        /\ response[r].status = TaxonomyStatus(args[r].kind)
        /\ response[r].body.status = response[r].status

\* C15 witness: a Conflict with a payload rendered as 409.
C15_Witness ==
    \E r \in Reqs :
        /\ Rendered(r) /\ args[r].kind = "Conflict" /\ args[r].payload # ""
        /\ response[r].status = 409

\* C16: for every error kind the label in the error field of the body is
\* the name of the kind as listed in the taxonomy.
C16_LabelIsKindName ==
    \A r \in Reqs : Rendered(r) => response[r].body.error = args[r].kind

\* The labels of into_response.
LabelOf(kind) ==
    CASE kind = "Internal" -> "InternalServerError"
      [] kind = "Database" -> "DatabaseError"
      [] OTHER -> kind

\* C16 as amended: the label is the name of the kind, except for Internal,
\* whose label is InternalServerError, and Database, whose label is
\* DatabaseError.
C16_LabelPerKind ==
    \A r \in Reqs : Rendered(r) => response[r].body.error = LabelOf(args[r].kind)

\* C16 witness: an Internal error rendered with the label InternalServerError.
C16_Witness ==
    \E r \in Reqs :
        /\ Rendered(r) /\ args[r].kind = "Internal"
        /\ response[r].body.error = "InternalServerError"

\* C17: every rendered error body has exactly the fields status, error,
\* message, traceId and timestamp, plus details exactly when the kind is
\* ValidationError.
C17_BodyFields ==
    \A r \in Reqs : Rendered(r) =>
        DOMAIN response[r].body =
            {"status", "error", "message", "traceId", "timestamp"}
            \cup (IF args[r].kind = "ValidationError" THEN {"details"} ELSE {})

\* C17 as amended: every rendered error body has exactly the fields status,
\* error, message, trace_id and timestamp, plus details exactly when the
\* kind is ValidationError.
C17_BodyFieldsSnakeCase ==
    \A r \in Reqs : Rendered(r) =>
        DOMAIN response[r].body =
            {"status", "error", "message", "trace_id", "timestamp"}
            \cup (IF args[r].kind = "ValidationError" THEN {"details"} ELSE {})

\* C17 witness: a ValidationError rendered with its payload as details.
C17_Witness ==
    \E r \in Reqs :
        /\ Rendered(r) /\ args[r].kind = "ValidationError"
        /\ response[r].body.details = args[r].payload
        /\ args[r].payload # ""

\* The generic message of the kinds whose source is not shown.
GenericMessage(kind) ==
    CASE kind = "Internal" -> "internal server error"
      [] kind = "Database" -> "database error"

\* C19: for every Internal and Database error, whatever its source, the body
\* is the fixed generic one for the kind (no field is derived from the
\* source), and the source appears in the log.
C19_SourceOnlyInLog ==
    \A r \in Reqs : (Rendered(r) /\ args[r].kind \in {"Internal", "Database"}) =>
        /\ response[r].body =
              [status |-> 500, error |-> LabelOf(args[r].kind),
               message |-> GenericMessage(args[r].kind),
               trace_id |-> Unwrap(response[r].x_trace_id),
               timestamp |-> [iso8601 |-> now]]
        /\ Unwrap(response[r].x_trace_id) \in
              {FreshTraceId} \cup {Unwrap(x).value : x \in RequestIds \ {None}}
        /\ Len(log[r]) = 1
        /\ log[r][1].source = args[r].payload

\* C19 witness: a Database error whose source holds a connection string.
C19_Witness ==
    \E r \in Reqs :
        /\ Rendered(r) /\ args[r].kind = "Database"
        /\ args[r].payload = "connection refused: postgres://app:pw@db/app"
        /\ response[r].body.message = "database error"

\* The request of slot r carries an X-Request-ID header with a value that
\* can be echoed.
CarriesRequestId(r) == IsSome(req[r].x_request_id) /\ Unwrap(req[r].x_request_id).ascii
IsErrorResponse(r) == Ended(r) /\ response[r].status >= 400

\* C18: every error response for a request that carries an X-Request-ID
\* header, on every path, has the inbound X-Request-ID as trace identifier in
\* the body and in the X-Trace-ID header; a fresh identifier is generated
\* only when the request carried none.
C18_TraceIdIsRequestId ==
    \A r \in Reqs : (IsErrorResponse(r) /\ CarriesRequestId(r)) =>
        /\ response[r].body.trace_id = Unwrap(req[r].x_request_id).value
        /\ response[r].x_trace_id = Some(Unwrap(req[r].x_request_id).value)

\* The two causes, told from the token presented: a well-formed HS256 token
\* whose signature does not verify, and a correctly signed HS256 token
\* decoded after exp + leeway.
BadSignatureCause(r) ==
    /\ IsSome(token[r])
    /\ Len(Unwrap(token[r])) = 3
    /\ Unwrap(token[r])[1] = B64(DefaultHeader)
    /\ ~SignatureVerifies(Unwrap(token[r]), env.JWT_SECRET)
ExpiredCause(r) ==
    /\ IsSome(token[r])
    /\ CorrectlySigned(Unwrap(token[r]), env.JWT_SECRET)
    /\ Unwrap(token[r])[1] = B64(DefaultHeader)
    /\ IsSome(observed[r].decode)
    /\ Unwrap(observed[r].decode) > Unwrap(token[r])[2].b64.exp + LEEWAY

\* What the caller sees of a response to an invalid token: nothing in it
\* depends on the cause.
InvalidTokenAnswer(r) ==
    /\ response[r].status = 401
    /\ response[r].body =
          [status |-> 401, error |-> "InvalidToken",
           message |-> "invalid authorization token",
           trace_id |-> trace_id_of(request_id_of(req[r])),
           timestamp |-> [iso8601 |-> now]]
    /\ response[r].x_trace_id = Some(trace_id_of(request_id_of(req[r])))
    /\ response[r].x_request_id = None

\* C20: the response to an expired token and the response to a token with a
\* bad signature are the same to the caller (status 401, label InvalidToken,
\* same message), while the log records a different event for each cause.
C20_SameAnswerDifferentLog ==
    \A r \in Reqs : (Protected(r) /\ Ended(r)) =>
        /\ BadSignatureCause(r) =>
              InvalidTokenAnswer(r) /\ log[r] = <<"warn: invalid signature">>
        /\ ExpiredCause(r) =>
              InvalidTokenAnswer(r) /\ log[r] = <<"info: expired token">>

\* C20 witness: an expired token answered with the response a bad signature
\* gets, and logged as expired.
C20_Witness ==
    \E r \in Reqs :
        /\ Protected(r) /\ Ended(r) /\ ExpiredCause(r)
        /\ InvalidTokenAnswer(r)
        /\ log[r] # <<"warn: invalid signature">>
\* ---------------------------------------------------------------- C21
\* What login_service returns when it refuses the credentials.
Denied == [ok |-> FALSE, err |-> "Unauthorized", token |-> None, user |-> None]
WellFormedLogin(b) == b.email \notin MalformedEmails /\ b.password # ""
\* No row of the table has the email.
UnknownAccount(b, table) == \A u \in table : u.email # b.email
\* A row has the email and the password is not the one its hash was made of.
WrongPassword(b, table) ==
    \E u \in table : /\ u.email = b.email
                     /\ "digest" \in DOMAIN u.password_hash
                     /\ u.password_hash.digest # b.password

\* C21: login_service returns the same value, the error Unauthorized, for an
\* email of no account and for the email of an account with a wrong password.
C21_UnknownAndWrongPasswordAlike ==
    [][\A r \in Reqs :
          (LoginService(r) /\ WellFormedLogin(args[r].req)
            /\ (UnknownAccount(args[r].req, users) \/ WrongPassword(args[r].req, users)))
          => ret'[r] = Some(Denied)]_vars

\* Two logins have ended, one for an email of no account and one for an
\* account with a wrong password, with the same result.
C21_Witness ==
    \E r1, r2 \in Reqs :
        /\ pc[r1] = "done" /\ pc[r2] = "done"
        /\ args[r1].op = "login_service" /\ args[r2].op = "login_service"
        /\ args[r1].req.email = "nobody@example.com"
        /\ args[r2].req.email = "user@example.com"
        /\ WrongPassword(args[r2].req, users)
        /\ ret[r1] = Some(Denied) /\ ret[r2] = ret[r1]

\* ---------------------------------------------------------------- C22
\* C22: verify_password returns false, not an error, for a stored string
\* that is not a parseable hash, and a login against a row with such a
\* string ends as Unauthorized.
C22_MalformedHashIsVerificationFailure ==
    \A r \in Reqs :
        /\ (pc[r] = "done" /\ args[r].op = "verify_password" /\ args[r].hash = MalformedHash)
            => (Unwrap(ret[r]).ok /\ ~Unwrap(ret[r]).val)
        /\ (pc[r] = "done" /\ args[r].op = "login_service"
              /\ args[r].req.email = LegacyRow.email /\ LegacyRow \in users)
            => Unwrap(ret[r]).err = "Unauthorized"

\* ---------------------------------------------------------------- C23
\* The call of slot r has ended: it returned or its task panicked.
CallEnded(r) == pc[r] \in {"done", "panicked"}
\* The rules of UserRequest hold of q.
ValidUserRequest(q) ==
    /\ q.name \notin ShortNames
    /\ q.email \notin MalformedEmails
    /\ q.password \notin WeakPasswords
    /\ q.age \in Ages
PasswordsTried == {"Passw0rd1", "Passw0rd3"}
LoginOf(email, password) == [kind |-> "json", email |-> email, password |-> password]

\* C23: verify_password(p, hash_password(p')) is true exactly when p = p',
\* and after create_user_service with password p for a new email a login
\* with p succeeds and a login with another password fails.
C23_RoundTripThenLogin ==
    \A r \in Reqs :
        /\ (pc[r] = "done" /\ args[r].op = "hash_verify")
            => /\ Unwrap(ret[r]).ok
               /\ Unwrap(ret[r]).val = (args[r].password = args[r].other)
        /\ (CallEnded(r) /\ args[r].op = "create_user_service"
              /\ ValidUserRequest(args[r].req)
              /\ UnknownAccount(args[r].req, InitialUsers))
            => \A p \in PasswordsTried :
                  login_service(LoginOf(args[r].req.email, p), users, env, now).ok
                      = (p = args[r].req.password)

\* ---------------------------------------------------------------- C24
\* C24: at most one row has a given email, and every create_user_service
\* call with that email that did not create the row failed with Conflict.
C24_OneRecordPerEmail ==
    /\ \A u, v \in users : u.email = v.email => u = v
    /\ \A r \in Reqs :
          (CallEnded(r) /\ args[r].op = "create_user_service"
            /\ ValidUserRequest(args[r].req))
          => /\ IsSome(ret[r])
             /\ Unwrap(ret[r]).ok \/ Unwrap(ret[r]).err = "Conflict"

\* ---------------------------------------------------------------- C25
\* C25: change_password_service with a current password that does not
\* verify against the stored hash fails with Unauthorized.
C25_WrongCurrentPasswordUnauthorized ==
    [][\A r \in Reqs :
          (/\ change_password_service(r)
           /\ pc[r] = "change_password_service"
           /\ \E u \in users : /\ u.id = args[r].user_id
                               /\ u.password_hash.digest # args[r].current_password)
          => ret'[r] = Some(Err("Unauthorized"))]_vars

\* ---------------------------------------------------------------- C27
\* C27: create_user_service with a request that breaks a validation rule
\* returns ValidationError and stores no row for it.
C27_InvalidRequestIsValidationError ==
    \A r \in Reqs :
        (CallEnded(r) /\ args[r].op = "create_user_service"
          /\ ~ValidUserRequest(args[r].req))
        => /\ ret[r] = Some(Err("ValidationError"))
           /\ \A u \in users : u.name # args[r].req.name \/ u.email # args[r].req.email

\* ---------------------------------------------------------------- C26
\* The row of id in the table.
RowOf(id, table) == CHOOSE u \in table : u.id = id
\* Slot r takes the step that writes its new password hash.
PasswordWritten(r) ==
    /\ change_password_service(r)
    /\ pc[r] = "change_write"
    /\ ret'[r] = Some(Ok(None))
\* A login with the password succeeds on the table.
LoginSucceeds(email, password, table) ==
    login_service(LoginOf(email, password), table, env, now).ok
\* What a login with each password gives changes only with a password write
\* for that user.
LoginsStableUntilNextChange ==
    \A u \in users, p \in PasswordsTried :
        (login_service(LoginOf(u.email, p), users, env, now).ok
            # login_service(LoginOf(u.email, p), users', env, now).ok)
        => \E r \in Reqs : PasswordWritten(r) /\ args[r].user_id = u.id

UserWritten(r) ==
    /\ update_user_service(r)
    /\ pc[r] = "update_write"
    /\ Unwrap(ret'[r]).ok
\* The write of slot r changes name and age as supplied and nothing else but
\* updated_at, in its row only.
UpdateFrame(r) ==
    LET id == args[r].user_id
        q == args[r].req
        old == RowOf(id, users)
        new == RowOf(id, users')
    IN  /\ new.name = (IF IsSome(q.name) THEN Unwrap(q.name) ELSE old.name)
        /\ new.age = (IF IsSome(q.age) THEN Unwrap(q.age) ELSE old.age)
        /\ new = [old EXCEPT !.name = new.name, !.age = new.age,
                             !.updated_at = new.updated_at]
        /\ {u \in users' : u.id # id} = {u \in users : u.id # id}
        /\ Unwrap(ret'[r]).val = new
\* A step of update_user_service that is not a write changes no row, and a
\* valid request for an id with no row is answered NotFound.
UpdateRefused(r) ==
    (update_user_service(r) /\ ~UserWritten(r))
    => /\ users' = users
       /\ (/\ pc[r] = "update_user_service"
           /\ UpdateUserRequest_validate(args[r].req) = "ok"
           /\ \A u \in users : u.id # args[r].user_id)
          => ret'[r] = Some(Err("NotFound"))

HandlerObserves(r) == pc[r] = "handler" \/ (pc[r] = "done" /\ invoked[r] > 0)
\* The token the request of slot r carries.
CarriedToken(r) == Unwrap(req[r].authorization).rest

\* C30: under every interleaving of concurrent requests the identity in the
\* context the handler of request r observes is the one of the token r
\* carries, and the handler answers for that user.
C30_IdentityOfOwnToken ==
    \A r \in Reqs :
        HandlerObserves(r)
        => /\ extensions[r] = IdentityOf(CarriedToken(r))
           /\ pc[r] = "done"
               => response[r].body.user_id = Unwrap(IdentityOf(CarriedToken(r)).user_id)

\* Two requests with the tokens of two users are in their handlers at once,
\* each with its own identity.
C30_Witness ==
    \E r1, r2 \in Reqs :
        /\ pc[r1] = "handler" /\ pc[r2] = "handler"
        /\ extensions[r1].user_id = Some(1)
        /\ extensions[r2].user_id = Some(2)
        /\ extensions[r2].role = Some("Admin")

\* ---------------------------------------------------------------- C29
\* The request of slot r has been received and not answered.
Outstanding(r) == pc[r] \notin {"idle", "done", "panicked"}
\* The task of slot r is over.
TaskOver(r) == pc[r] \in {"done", "panicked"}
\* The request of slot r is in the Start state of a new request.
AtStart(r) ==
    /\ token[r] = None /\ claims[r] = NoClaims /\ user_id[r] = None
    /\ extensions[r] = NoExtensions /\ trace[r] = <<>> /\ invoked[r] = 0

\* The deadline part of C29: no request is outstanding beyond its deadline, a
\* 408 is the answer to a request whose chain was pending at the deadline,
\* and a request, a retry too, starts with no identity.
DeadlineKept ==
    \A r \in Reqs :
        /\ (r \in active /\ Outstanding(r))
            => now <= locals[r].started + REQUEST_TIMEOUT_SECONDS
        /\ (pc[r] = "done" /\ response[r].status = 408)
            => /\ response[r] = timeout_response
               /\ now = locals[r].started + REQUEST_TIMEOUT_SECONDS
        /\ pc[r] \in {"extract", "login"} => AtStart(r)

\* C29: every request receives a response within the request deadline; a
\* chain not completed after 30 seconds is abandoned and 408 is answered;
\* a retry starts from the Start state with no identity.
C29_ResponseWithinDeadline ==
    /\ DeadlineKept
    /\ \A r \in Reqs : TaskOver(r) => response[r] # NoResponse

\* ---------------------------------------------------------------- C31
\* The look-up of slot r has returned an error.
LookupFailed(r) ==
    /\ pc[r] = "done"
    /\ "op" \in DOMAIN args[r]
    /\ args[r].op \in {"find_user_by_email", "find_user_by_id"}
    /\ ~Unwrap(ret[r]).ok
PersistenceKinds == {"NotFound", "Conflict", "Database"}

\* C31: every error returned by find_user_by_id or find_user_by_email is of
\* kind NotFound, Conflict or Database and of no other kind.
C31_LookupErrorKinds ==
    \A r \in Reqs : LookupFailed(r) => Unwrap(ret[r]).err \in PersistenceKinds

\* The part of C31 that holds: an error of find_user_by_id is NotFound,
\* Conflict or Database; an error of find_user_by_email is one of these or
\* the Forbidden of a row that is not active; a row returned is the row of
\* the key, and find_user_by_email returns no inactive row.
LookupErrorsTranslated ==
    \A r \in Reqs :
        /\ LookupFailed(r) =>
              \/ Unwrap(ret[r]).err \in PersistenceKinds
              \/ /\ Unwrap(ret[r]).err = "Forbidden"
                 /\ args[r].op = "find_user_by_email"
                 /\ \E u \in users : u.email = args[r].email /\ ~u.is_active
        /\ (pc[r] = "done" /\ "op" \in DOMAIN args[r] /\ Unwrap(ret[r]).ok) =>
              /\ args[r].op = "find_user_by_email" =>
                    /\ Unwrap(ret[r]).val \in users
                    /\ Unwrap(ret[r]).val.email = args[r].email
                    /\ Unwrap(ret[r]).val.is_active
              /\ args[r].op = "find_user_by_id" =>
                    /\ Unwrap(ret[r]).val \in users
                    /\ Unwrap(ret[r]).val.id = args[r].id

\* ---------------------------------------------------------------- C32
\* The handlers that take or return account data.
AccountRoutes == {"create_user", "login", "update_user", "change_password"}
\* The fields of a body that are text, and the fields that are numbers,
\* flags, times or token claims other than text.
TextFields == {"error", "message", "details", "trace_id", "name", "email", "role", "version"}
PlainFields ==
    {"status", "id", "age", "created_at", "success", "timestamp", "uptime", "requests",
     "api_uptime_seconds", "api_requests_total", "empty", "none", "sub", "exp", "iat",
     "iss", "aud", "token", "user"}
\* The password fields of a request body.
SecretFields == {"password", "current_password", "new_password", "confirm_password"}
\* The plaintext passwords known to the system: those of the request and
\* those of the accounts.
Plaintexts(q) ==
    ({q.body[f] : f \in DOMAIN q.body \cap SecretFields} \ {""})
    \cup {"Passw0rd1", "Passw0rd2"}
StoredHashes == {u.password_hash : u \in users}
\* A JSON object has a text field that is a plaintext password, or another
\* field that is a stored hash.
ObjectLeaks(b, plain, hashes) ==
    \/ \E f \in DOMAIN b \cap TextFields : b[f] \in plain
    \/ \E f \in DOMAIN b \ (TextFields \cup PlainFields) : b[f] \in hashes
\* A response body leaks: itself, the user object in it, or the claims of
\* the token in it.
BodyLeaks(b, plain, hashes) ==
    \/ ObjectLeaks(b, plain, hashes)
    \/ "user" \in DOMAIN b /\ ObjectLeaks(b.user, plain, hashes)
    \/ "token" \in DOMAIN b /\ ObjectLeaks(b.token[2].b64, plain, hashes)

ContactHandles == {"user@example.com", "admin@example.com"}
\* A token issued an hour and a second ago: its signature verifies, it is
\* within the leeway of the decoder and past its expiry.
Lapsed(e) ==
    generate_token(1, "user@example.com", "User", e, 0 - TOKEN_EXPIRY_SECONDS - 1)
\* Tokens signed with the secret for each account under each address, and
\* tokens that fail at each stage of the gate.
ContextTokens(e) ==
    {generate_token(u.id, m, u.role, e, 0) :
        u \in {x \in InitialUsers : x.is_active}, m \in ContactHandles}
    \cup {Garbage, WrongKey, BadSubject(e), Lapsed(e)}
ContextRequests(e) ==
    {Request("update_user", a, None, None, NoBody) :
        a \in {None} \cup {Bearer(t) : t \in ContextTokens(e)}}

\* handle_request: PATCH /api/v1/users/me arrives and enters the gate.
ContextReceive(r) ==
    /\ r \in active
    /\ pc[r] = "idle"
    /\ \E q \in ContextRequests(env) :
          /\ req' = [req EXCEPT ![r] = q]
          /\ pc' = [pc EXCEPT ![r] = "extract"]
    /\ UNCHANGED <<now, env, jwtCrate, DECODING_KEY, JWT_VALIDATION, users, held, active,
                   token, claims, user_id, extensions, response, invoked, observed,
                   trace, log, args, inits, ret, locals>>

ContextNext ==
    \E r \in Reqs :
        \/ ContextReceive(r)
        \/ ExtractToken(r)
        \/ DecodeToken(r)
        \/ CheckExpiry(r)
        \/ ParseSubject(r)
        \/ BindIdentity(r)
        \/ CallHandler(r)
        \/ HandlerReturn(r)
        \/ Finish(r)

ContextSpec == ConcurrentInit /\ [][ContextNext]_vars

\* The gate has bound nothing for the request of slot r: it has not reached
\* the call of the handler.
NotBound(r) == pc[r] \notin {"call", "handler"} /\ invoked[r] = 0
\* The payload of the token the request of slot r carries.
CarriedPayload(r) == CarriedToken(r)[2].b64
\* Two tokens with verifying signatures whose payloads differ in the email
\* claim at most.
SameButEmail(t1, t2, key) ==
    /\ SignatureVerifies(t1, key) /\ SignatureVerifies(t2, key)
    /\ t1[1] = t2[1]
    /\ [t1[2].b64 EXCEPT !.email = t2[2].b64.email] = t2[2].b64

LapsedRejectedUnbound ==
    \E r \in Reqs :
        /\ Ended(r) /\ req[r].authorization = Bearer(Lapsed(env))
        /\ response[r].status = 401 /\ invoked[r] = 0
        /\ extensions[r] = NoExtensions

\* ---------------------------------------------------------------- C34
\* The token of the first carrier of request q that holds one.
FirstCarrierToken(q) ==
    IF HasBearer(q) THEN Unwrap(q.authorization).rest
    ELSE Unwrap(q.x_user_access_token).value
\* A carrier of request q after the first one holds token t.
LaterCarrierHolds(q, t) ==
    \/ HasBearer(q) /\ HasLegacy(q) /\ Unwrap(q.x_user_access_token).value = t
    \/ (HasBearer(q) \/ HasLegacy(q)) /\ HasAuthCookie(q) /\ IsFirstAuthCookie(q, t)

\* C34: the gate validates the token of the first carrier that holds one and
\* no other: when the signature of the Bearer token does not verify the
\* request is answered 401 InvalidToken without the handler, whatever the
\* legacy header and the cookie hold; and so for the token of a legacy
\* header without a Bearer token, whatever the cookie holds.
C34_NoFallbackBetweenCarriers ==
    \A r \in Reqs :
        (/\ Protected(r) /\ Ended(r)
         /\ (HasBearer(req[r]) \/ HasLegacy(req[r]))
         /\ ~SignatureVerifies(FirstCarrierToken(req[r]), env.JWT_SECRET)) =>
            /\ Rejected(r, "InvalidToken")
            /\ invoked[r] = 0
            /\ token[r] = Some(FirstCarrierToken(req[r]))
            /\ extensions[r] = NoExtensions

\* C34 witness: a legacy header that does not validate, in front of a
\* cookie with the token the login issued, before that token expires: 401.
C34_Witness ==
    \E r \in Reqs :
        /\ Protected(r) /\ Ended(r)
        /\ ~HasBearer(req[r]) /\ HasLegacy(req[r])
        /\ FirstCarrierToken(req[r]) = Garbage
        /\ IsSome(held) /\ LaterCarrierHolds(req[r], Unwrap(held))
        /\ now < Unwrap(held)[2].b64.exp
        /\ Rejected(r, "InvalidToken")

\* A Bearer token that does not validate, in front of a legacy header and a
\* cookie that both hold the token the login issued: 401.
BearerFailsBeforeValidCarriers ==
    \E r \in Reqs :
        /\ Protected(r) /\ Ended(r)
        /\ HasBearer(req[r]) /\ FirstCarrierToken(req[r]) = Garbage
        /\ IsSome(held)
        /\ HasLegacy(req[r]) /\ Unwrap(req[r].x_user_access_token).value = Unwrap(held)
        /\ HasAuthCookie(req[r]) /\ IsFirstAuthCookie(req[r], Unwrap(held))
        /\ now < Unwrap(held)[2].b64.exp
        /\ Rejected(r, "InvalidToken")

\* ---------------------------------------------------------------- C35
\* role_middleware has been applied to the request of slot r and has left
\* its decision.
RoleGatePassed(r) == "required_role" \in DOMAIN args[r] /\ pc[r] \in {"handler", "done"}

\* C35: role_middleware invokes the handler only when the bound role is the
\* required role or Admin, and then once; a role that is neither is
\* answered 403 Forbidden without the handler; a context without a role is
\* answered 401 Unauthorized without the handler; the gate decides once.
C35_HandlerOnlyWhenAllowed ==
    \A r \in Reqs : RoleGatePassed(r) =>
        LET bound == extensions[r].role
            required == args[r].required_role
        IN  /\ trace[r] = <<"role">>
            /\ invoked[r] \in {0, 1}
            /\ invoked[r] = 1 <=> (bound = Some(required) \/ bound = Some("Admin"))
            /\ bound = None =>
                  /\ invoked[r] = 0
                  /\ response[r].status = 401
                  /\ ErrorOf(response[r]) = "Unauthorized"
            /\ (bound # None /\ bound # Some(required) /\ bound # Some("Admin")) =>
                  /\ invoked[r] = 0
                  /\ response[r].status = 403
                  /\ ErrorOf(response[r]) = "Forbidden"

\* C35 witness: a context with a user id and no role was answered 401
\* without the handler where User is required.
C35_Witness ==
    \E r \in Reqs :
        /\ RoleGatePassed(r) /\ Ended(r)
        /\ extensions[r].role = None /\ IsSome(extensions[r].user_id)
        /\ args[r].required_role = "User"
        /\ invoked[r] = 0 /\ response[r].status = 401

\* ---------------------------------------------------------------- C36
\* The call of slot r is a login for an account of table that is
\* deactivated, with the password of that account.
DeactivatedLogin(r, table) ==
    /\ "op" \in DOMAIN args[r] /\ args[r].op = "login_service"
    /\ \E u \in table :
          /\ u.email = args[r].req.email /\ ~u.is_active
          /\ verify_password(args[r].req.password, u.password_hash) = Ok(TRUE)

\* C36: login_service for a deactivated account with the correct password
\* returns Forbidden, and never a token.
C36_DeactivatedLoginForbidden ==
    [][\A r \in Reqs :
          (pc[r] = "login_service" /\ pc'[r] = "done" /\ DeactivatedLogin(r, users)) =>
              /\ ~Unwrap(ret'[r]).ok
              /\ Unwrap(ret'[r]).token = None
              /\ Unwrap(ret'[r]).err = "Forbidden"]_vars

\* The part of C36 that holds: a login for a deactivated account returns
\* an error and no token.
DeactivatedLoginNoToken ==
    [][\A r \in Reqs :
          (pc[r] = "login_service" /\ pc'[r] = "done" /\ DeactivatedLogin(r, users)) =>
              /\ ~Unwrap(ret'[r]).ok
              /\ Unwrap(ret'[r]).token = None
              /\ Unwrap(ret'[r]).err = "Unauthorized"]_vars

\* ---------------------------------------------------------------- C37
\* The claims of the token the client holds.
HeldClaims == Unwrap(held)[2].b64
\* The login of this step issues a token at the time of the step: its iat
\* is that time and its exp is 3600 seconds later.
IssuedWithWindow ==
    (held' # held) =>
        /\ HeldClaims'.iat = now
        /\ HeldClaims'.exp = now + 3600
        /\ HeldClaims'.exp > HeldClaims'.iat
\* The gate has decoded the token the client holds and answered.
HeldTokenJudged(r) ==
    /\ Protected(r) /\ Ended(r)
    /\ IsSome(held) /\ token[r] = held
    /\ IsSome(observed[r].decode)
\* Presented at a time after exp + 60 the issued token is rejected.
RejectedAfterLeeway ==
    \A r \in Reqs :
        (HeldTokenJudged(r) /\ Unwrap(observed[r].decode) > HeldClaims.exp + 60) =>
            response[r].status = 401 /\ invoked[r] = 0
\* Presented and judged at a time up to exp the issued token is accepted.
AcceptedUpToExpiry ==
    \A r \in Reqs : (HeldTokenJudged(r) /\ now <= HeldClaims.exp) => invoked[r] = 1

IssuedWindowAndRejection ==
    /\ [][IssuedWithWindow]_vars
    /\ [](RejectedAfterLeeway)
    /\ []((env.JWT_ISSUER = None /\ env.JWT_AUDIENCE = None) \/ jwtCrate.missing = "skip"
            => AcceptedUpToExpiry)

\* ---------------------------------------------------------------- C38
\* Slot r takes a step of change_password_service that does not complete
\* the call with success: a step before the write, or a failure.
PasswordNotWritten(r) == change_password_service(r) /\ ~PasswordWritten(r)
\* The write of slot r changes password_hash and updated_at of the row of
\* its user and nothing else.
PasswordFrame(r) ==
    LET id == args[r].user_id
        old == RowOf(id, users)
        new == RowOf(id, users')
    IN  /\ {u \in users' : u.id # id} = {u \in users : u.id # id}
        /\ {u.id : u \in users'} = {u.id : u \in users}
        /\ new = [old EXCEPT !.password_hash = new.password_hash,
                             !.updated_at = new.updated_at]
        /\ new.password_hash.digest = args[r].new_password
\* Every login that succeeded on the table before the step succeeds after it.
LoginsKept ==
    \A u \in users, p \in PasswordsTried :
        LoginSucceeds(u.email, p, users) => LoginSucceeds(u.email, p, users')

\* C38: a change_password_service call that fails (wrong current password,
\* unknown user, hashing failure) leaves the stored hash of every user as it
\* was, and a login with the previous password still succeeds; a successful
\* call changes only password_hash and updated_at of the row of its user.
C38_FailedChangeKeepsHashes ==
    [][\A r \in Reqs :
          /\ PasswordNotWritten(r) =>
                /\ {<<u.id, u.password_hash>> : u \in users'}
                      = {<<u.id, u.password_hash>> : u \in users}
                /\ LoginsKept
          /\ PasswordWritten(r) => PasswordFrame(r)]_vars

\* C38 witness: a password change of the deactivated account has succeeded
\* and the account is still deactivated, and another call has failed at the
\* hashing while the password of its account still logs in.
C38_Witness ==
    \E r1, r2 \in Reqs :
        /\ pc[r1] = "done" /\ args[r1].op = "change_password_service"
        /\ args[r1].user_id = 3 /\ args[r1].new_password = "Passw0rd3"
        /\ ret[r1] = Some(Ok(None))
        /\ RowOf(3, users).password_hash.digest = "Passw0rd3"
        /\ ~RowOf(3, users).is_active
        /\ pc[r2] = "done" /\ args[r2].op = "change_password_service"
        /\ args[r2].user_id = 1
        /\ ret[r2] = Some(Err("Internal"))
        /\ LoginSucceeds("user@example.com", "Passw0rd1", users)

\* ---------------------------------------------------------------- C39
\* Two calls of change_password_service for the same user that both present
\* the password the account had at the start have both succeeded.
BothChangedFromOriginal ==
    \E r1, r2 \in Reqs :
        /\ r1 # r2
        /\ \A r \in {r1, r2} :
              /\ pc[r] = "done" /\ args[r].op = "change_password_service"
              /\ args[r].user_id = 1
              /\ args[r].current_password = "Passw0rd1"
              /\ args[r].new_password = "Passw0rd3"
              /\ ret[r] = Some(Ok(None))

\* C39: under any interleaving of concurrent change_password_service calls
\* for one user, a call succeeds only if the current password it supplied
\* verifies against the hash stored when its update is written; two
\* concurrent calls that both present the original password and set another
\* cannot both succeed.
C39_VerifiedAtWrite ==
    /\ [][\A r \in Reqs :
             PasswordWritten(r) =>
                 verify_password(args[r].current_password,
                                 RowOf(args[r].user_id, users).password_hash) = Ok(TRUE)]_vars
    /\ [](~BothChangedFromOriginal)

\* ---------------------------------------------------------------- C40
\* The stages of auth_middleware, as a set.
GateStageSet == {GateStages[i] : i \in 1..Len(GateStages)}
\* The stages the request of slot r has passed.
StagesOf(r) == {trace[r][i] : i \in 1..Len(trace[r])}
\* The request of slot r is for an arm that needs no token: the public
\* handlers, the monitoring routes, OPTIONS.
OpenArm(r) ==
    req[r].route \in {"create_user", "login", "health", "metrics", "options"}

\* C40: update_user and change_password run only behind auth_middleware:
\* whenever one of them runs, the gate has passed the request through all
\* its stages and the context holds the user id of the token; the requests
\* for create_user, login, /health, /metrics and OPTIONS never enter the
\* gate and are never answered for want of a token.
C40_ProtectedOnlyThroughGate ==
    \A r \in Reqs :
        /\ (\/ pc[r] = "handler"
            \/ /\ req[r].route \in ProtectedRoutes
               /\ \/ pc[r] = "panicked"
                  \/ pc[r] = "done" /\ response[r].status \notin {401, 413}) =>
              /\ req[r].route \in ProtectedRoutes
              /\ trace[r] = GateStages
              /\ invoked[r] = 1
              /\ IsSome(extensions[r].user_id)
              /\ extensions[r] = IdentityOf(Unwrap(token[r]))
        /\ (pc[r] # "idle" /\ OpenArm(r)) =>
              /\ StagesOf(r) \cap GateStageSet = {}
              /\ token[r] = None /\ invoked[r] = 0
              /\ pc[r] \notin {"extract", "decode", "expiry", "subject", "bind", "call", "handler"}
              /\ (pc[r] = "done" /\ req[r].route \notin {"login"}) => response[r].status # 401

\* C40 witness: the legacy PATCH /api/users/me without a token was answered
\* 401 by the gate before its handler, and so reached no handler.
C40_Witness ==
    \E r \in Reqs :
        /\ pc[r] = "done" /\ req[r].method = "PATCH" /\ req[r].path = "/api/users/me"
        /\ req[r].authorization = None
        /\ trace[r] = <<"extract">> /\ invoked[r] = 0
        /\ response[r].status = 401

\* A login without any token was answered 200, and /health without one too.
OpenArmsAnswerWithoutToken ==
    \E r \in Reqs :
        /\ pc[r] = "done" /\ req[r].authorization = None
        /\ req[r].route \in {"login", "health"} /\ response[r].status = 200

====
